---- MODULE Spec2Model ----
(***************************************************************************)
(* Model of the fiber-audio-player core:                                   *)
(*   - StreamingPaymentService (src/src/lib/streaming-payment.ts), the     *)
(*     pay-per-second billing engine, under specification Spec;            *)
(*   - the channel setup controller of useFiberNode, in its two revisions  *)
(*     (src/src/hooks/use-fiber-node.ts, peer-keyed, and                   *)
(*     src/unnamed/part_004, recipient-keyed), under SpecChannel.          *)
(*                                                                         *)
(* JavaScript runs each callback to completion: one action is one          *)
(* macrotask (a timer callback, a user call, the settlement of a gateway   *)
(* request together with the promise continuations it releases).           *)
(***************************************************************************)
EXTENDS Integers, Sequences, FiniteSets, TLC

(***************************************************************************)
(* Units.  Wall-clock time is in milliseconds (Date.now()); the float      *)
(* accumulatedSeconds is kept in milliseconds, so Math.floor(seconds) is   *)
(* an integer division by MsPerSecond.  A CKB amount (a float in the       *)
(* source) is kept as an integer number of 1/SubShannon shannon, so that   *)
(* rates below one shannon per second exist and ckbToShannon really floors.*)
(***************************************************************************)
MsPerSecond == 1000

\* Clock granularity: the clock advances in steps of 1/StepsPerSecond second.
StepsPerSecond == 2

StepMs == MsPerSecond \div StepsPerSecond

\* The clock stops after MaxClockSeconds seconds.
MaxClockSeconds == 2

MaxClockSteps == MaxClockSeconds * StepsPerSecond

\* Resolution of CKB amounts below one shannon.
SubShannon == 2

\* pricePerSecond of the demo episode, 0.0001 CKB, in shannon.
DemoRateShannon == 10000

\* ratePerSecond values tried, in 1/SubShannon shannon per second:
\* below one shannon, one shannon, the demo's.
Rates == {1, SubShannon, DemoRateShannon * SubShannon}

\* paymentIntervalMs values tried.
Intervals == {StepMs, 2 * StepMs}

\* What the gateway answers to a keysend: a PaymentResult status, or a throw.
SendOutcomes == {"Success", "Failed", "Inflight", "throw"}

NoTimer == 0

VARIABLES
  ratePerSecond,       \* config.ratePerSecond
  paymentIntervalMs,   \* config.paymentIntervalMs
  isStreaming,         \* StreamingPaymentService.isStreaming
  intervalId,          \* StreamingPaymentService.intervalId (NoTimer: null)
  totalPaid,           \* StreamingPaymentService.totalPaid
  lastPaymentTime,     \* StreamingPaymentService.lastPaymentTime
  accumulatedSeconds,  \* StreamingPaymentService.accumulatedSeconds, in ms
  timers,              \* the interval timers armed in the event loop
  dueAt,               \* when the armed interval timer is next due
  now,                 \* Date.now()
  inflight,            \* the ticks whose keysend has not settled yet
  ticks,               \* the ticks handed to notifyCallbacks, in order
  routeAvailable,      \* gateway: would a dry-run payment succeed now
  elapsedTotal,        \* history: sum of the elapsed times the ticks have seen
  firstSession,        \* history: stopStreaming has not yet stopped the engine
  lastOp               \* history: the operation that made the last step

billingVars == <<ratePerSecond, paymentIntervalMs, isStreaming, intervalId,
                 totalPaid, lastPaymentTime, accumulatedSeconds, timers, dueAt,
                 now, inflight, ticks, routeAvailable, elapsedTotal,
                 firstSession, lastOp>>

VARIABLES
  revision,         \* which useFiberNode: "peer" (src/src/hooks/use-fiber-node.ts)
                    \* or "recipient" (src/unnamed/part_004)
  node,             \* the state and refs of useFiberNode, and its armed timers
  setups,           \* the setupChannel calls: where each stands
  peerConnected,    \* gateway: the recipient is in the peer list
  gwChannels,       \* gateway: the node's channels, in list order
  cancelledIn,      \* history: the status in which cancel, the last command,
                    \* found a setup under way ("none": no such cancel)
  check             \* the checkPaymentRoute call: the request it waits for

channelVars == <<revision, node, setups, peerConnected, gwChannels,
                 cancelledIn, check>>

VARIABLES
  isPlaying,            \* the page: useAudioPlayer's isPlaying
  playbackGuardError,   \* the page: AudioPlayer's playbackGuardError
  paymentHistory,       \* useStreamingPayment's paymentHistory: the numbers of
                        \* the ticks it keeps, in the order of the array
  lastPayment           \* useStreamingPayment's lastPayment (number 0: null)

hookVars == <<paymentHistory, lastPayment>>

pageVars == <<isPlaying, playbackGuardError, hookVars>>

VARIABLES
  mockTotalPaid,     \* MockStreamingPaymentService.mockTotalPaid
  mockIsStreaming,   \* MockStreamingPaymentService.mockIsStreaming
  mockIntervalId,    \* MockStreamingPaymentService.mockIntervalId is armed
  mockLastTime,      \* MockStreamingPaymentService.mockLastTime
  mockAccumulated,   \* MockStreamingPaymentService.mockAccumulated, in ms
  mockTicks          \* the ticks handed to mockCallbacks, in order

mockVars == <<mockTotalPaid, mockIsStreaming, mockIntervalId, mockLastTime,
              mockAccumulated, mockTicks>>

vars == <<billingVars, channelVars, pageVars, mockVars>>

(***************************************************************************)
(* Helpers of the billing engine                                           *)
(***************************************************************************)

\* ckbToShannon: BigInt(Math.floor(ckb * 100_000_000)).
ckbToShannon(ckb) == ckb \div SubShannon

\* checkPaymentRoute: the dry-run sendPayment; false when it fails or throws.
checkPaymentRoute == routeAvailable

\* processPaymentTick, lines 79-82.
ElapsedMs == now - lastPaymentTime

AccumulatedAfterElapsed == accumulatedSeconds + ElapsedMs

\* processPaymentTick, line 85.
SecondsToPay == AccumulatedAfterElapsed \div MsPerSecond

\* Mutant of TickAmountShannon: one second is billed whatever has accumulated.
TickAmountShannon_OneSecond == ckbToShannon(ratePerSecond)

\* processPaymentTick, line 89.
TickAmountShannon == ckbToShannon(ratePerSecond * SecondsToPay)

\* processPaymentTick, lines 91-96: the tick object.  id, secondsToPay,
\* resolvedBefore and awaitedByStop are history fields: the identity of the
\* object, the whole seconds it bills, how many ticks had been delivered when
\* it was made, and whether stopStreaming awaits it.
NewTick(awaited) ==
  [ id               |-> Len(ticks) + Cardinality(inflight) + 1,
    timestamp        |-> now,
    amountShannon    |-> TickAmountShannon,
    totalPaidShannon |-> totalPaid + TickAmountShannon,
    status           |-> "pending",
    error            |-> "none",
    secondsToPay     |-> SecondsToPay,
    resolvedBefore   |-> Len(ticks),
    awaitedByStop    |-> awaited ]

\* Mutant of ProcessPaymentTick: the return of line 86 is missing.
ProcessPaymentTick_NoReturn(awaited) ==
  /\ lastPaymentTime' = now
  /\ elapsedTotal' = elapsedTotal + ElapsedMs
  /\ accumulatedSeconds' = AccumulatedAfterElapsed - SecondsToPay * MsPerSecond
  /\ inflight' = inflight \cup {NewTick(awaited)}

\* Mutant of ProcessPaymentTick: a tick that bills drops the fraction left.
ProcessPaymentTick_DropsFraction(awaited) ==
  /\ lastPaymentTime' = now
  /\ elapsedTotal' = elapsedTotal + ElapsedMs
  /\ IF SecondsToPay <= 0
       THEN /\ accumulatedSeconds' = IF awaited THEN 0 ELSE AccumulatedAfterElapsed
            /\ inflight' = inflight
       ELSE /\ accumulatedSeconds' = 0
            /\ inflight' = inflight \cup {NewTick(awaited)}

\* processPaymentTick up to its await (lines 79-102): the synchronous part.
\* A tick that stopStreaming awaits and that returns at line 86 lets line 75
\* run in the same macrotask.
ProcessPaymentTick(awaited) ==
  /\ lastPaymentTime' = now
  /\ elapsedTotal' = elapsedTotal + ElapsedMs
  /\ IF SecondsToPay <= 0
       THEN /\ accumulatedSeconds' = IF awaited THEN 0 ELSE AccumulatedAfterElapsed
            /\ inflight' = inflight
       ELSE /\ accumulatedSeconds' = AccumulatedAfterElapsed - SecondsToPay * MsPerSecond
            /\ inflight' = inflight \cup {NewTick(awaited)}

\* lines 105 and 114-116: the status of the settled tick.
TickStatus(outcome) == IF outcome = "Success" THEN "success" ELSE "failed"

\* Mutant of TickError: the message of a thrown error is not recorded.
TickError_ThrowLosesText(outcome) ==
  CASE outcome = "Failed" -> "failed_error"
    [] OTHER              -> "none"

\* lines 106-108 and 116: the error text of the settled tick.
TickError(outcome) ==
  CASE outcome = "Failed" -> "failed_error"
    [] outcome = "throw"  -> "thrown"
    [] OTHER              -> "none"

\* Mutant of TotalPaidAfter: a failed tick is charged too.
TotalPaidAfter_ChargeFailed(t, status) == totalPaid + t.amountShannon

\* lines 110-113: totalPaid after the tick t settled with this status.
TotalPaidAfter(t, status) ==
  IF status = "success" THEN totalPaid + t.amountShannon ELSE totalPaid

\* setInterval: the next due time when the timer fires at `now`.
NextDue ==
  IF dueAt + paymentIntervalMs > now THEN dueAt + paymentIntervalMs
  ELSE now + paymentIntervalMs

(***************************************************************************)
(* Operations of the billing engine                                        *)
(***************************************************************************)

BillingInit ==
  /\ ratePerSecond \in Rates
  /\ paymentIntervalMs \in Intervals
  /\ isStreaming = FALSE
  /\ intervalId = NoTimer
  /\ totalPaid = 0
  /\ lastPaymentTime = 0
  /\ accumulatedSeconds = 0
  /\ timers = {}
  /\ dueAt = 0
  /\ now = 0
  /\ inflight = {}
  /\ ticks = <<>>
  /\ routeAvailable \in BOOLEAN
  /\ elapsedTotal = 0
  /\ firstSession = TRUE
  /\ lastOp = "init"

\* A timer handle not in use.
FreshTimer == CHOOSE t \in 1..(Cardinality(timers) + 1) : t \notin timers

\* Mutant of StartStreaming: the guard of line 54 is missing.
StartStreaming_NoGuard ==
  /\ lastOp' = "start"
  /\ isStreaming' = TRUE
  /\ lastPaymentTime' = now
  /\ accumulatedSeconds' = 0
  /\ intervalId' = FreshTimer
  /\ timers' = timers \cup {FreshTimer}
  /\ dueAt' = now + paymentIntervalMs
  /\ UNCHANGED <<ratePerSecond, paymentIntervalMs, totalPaid, now, inflight,
                 ticks, routeAvailable, elapsedTotal, firstSession>>

\* startStreaming, lines 53-62.
StartStreaming ==
  /\ lastOp' = "start"
  /\ IF isStreaming
       THEN UNCHANGED <<isStreaming, lastPaymentTime, accumulatedSeconds,
                        intervalId, timers, dueAt>>
       ELSE /\ isStreaming' = TRUE
            /\ lastPaymentTime' = now
            /\ accumulatedSeconds' = 0
            /\ intervalId' = FreshTimer
            /\ timers' = timers \cup {FreshTimer}
            /\ dueAt' = now + paymentIntervalMs
  /\ UNCHANGED <<ratePerSecond, paymentIntervalMs, totalPaid, now, inflight,
                 ticks, routeAvailable, elapsedTotal, firstSession>>

\* Mutant of StopStreaming: the final tick of line 74 is missing.
StopStreaming_NoFinalTick ==
  /\ lastOp' = "stop"
  /\ IF ~isStreaming
       THEN UNCHANGED <<isStreaming, intervalId, timers, accumulatedSeconds,
                        firstSession>>
       ELSE /\ isStreaming' = FALSE
            /\ timers' = timers \ {intervalId}
            /\ intervalId' = NoTimer
            /\ firstSession' = FALSE
            /\ accumulatedSeconds' = 0
  /\ UNCHANGED <<ratePerSecond, paymentIntervalMs, totalPaid, dueAt, now,
                 ticks, routeAvailable, lastPaymentTime, inflight, elapsedTotal>>

\* stopStreaming, lines 64-76, up to the await of the final tick.
StopStreaming ==
  /\ lastOp' = "stop"
  /\ IF ~isStreaming
       THEN UNCHANGED <<isStreaming, intervalId, timers, lastPaymentTime,
                        accumulatedSeconds, inflight, elapsedTotal, firstSession>>
       ELSE /\ isStreaming' = FALSE
            /\ timers' = timers \ {intervalId}
            /\ intervalId' = NoTimer
            /\ firstSession' = FALSE
            /\ ProcessPaymentTick(TRUE)
  /\ UNCHANGED <<ratePerSecond, paymentIntervalMs, totalPaid, dueAt, now,
                 ticks, routeAvailable>>

\* The interval callback of line 59-61 fires: one processPaymentTick.
TimerFire ==
  /\ timers # {}
  /\ now >= dueAt
  /\ lastOp' = "timer"
  /\ dueAt' = NextDue
  /\ ProcessPaymentTick(FALSE)
  /\ UNCHANGED <<ratePerSecond, paymentIntervalMs, isStreaming, intervalId,
                 totalPaid, timers, now, ticks, routeAvailable, firstSession>>

\* Mutant of KeysendSettled: a send that settles on a stopped engine, and that
\* stopStreaming does not await, is dropped.
KeysendSettled_DroppedAfterStop(t, outcome) ==
  LET status == TickStatus(outcome)
      paid   == TotalPaidAfter(t, status)
      done   == [t EXCEPT !.status = status,
                          !.error = TickError(outcome),
                          !.totalPaidShannon =
                             IF status = "success" THEN paid ELSE @]
      drop   == ~isStreaming /\ ~t.awaitedByStop
  IN /\ t \in inflight
     /\ lastOp' = "settle"
     /\ totalPaid' = IF drop THEN totalPaid ELSE paid
     /\ ticks' = IF drop THEN ticks ELSE Append(ticks, done)
     /\ inflight' = inflight \ {t}
     /\ accumulatedSeconds' = IF t.awaitedByStop THEN 0 ELSE accumulatedSeconds
     /\ UNCHANGED <<ratePerSecond, paymentIntervalMs, isStreaming, intervalId,
                    lastPaymentTime, timers, dueAt, now, routeAvailable,
                    elapsedTotal, firstSession>>

\* The keysend of tick t settles: lines 104-119, and line 75 when
\* stopStreaming was awaiting this tick.
KeysendSettled(t, outcome) ==
  LET status == TickStatus(outcome)
      paid   == TotalPaidAfter(t, status)
      done   == [t EXCEPT !.status = status,
                          !.error = TickError(outcome),
                          !.totalPaidShannon =
                             IF status = "success" THEN paid ELSE @]
  IN /\ t \in inflight
     /\ lastOp' = "settle"
     /\ totalPaid' = paid
     /\ ticks' = Append(ticks, done)
     /\ inflight' = inflight \ {t}
     /\ accumulatedSeconds' = IF t.awaitedByStop THEN 0 ELSE accumulatedSeconds
     /\ UNCHANGED <<ratePerSecond, paymentIntervalMs, isStreaming, intervalId,
                    lastPaymentTime, timers, dueAt, now, routeAvailable,
                    elapsedTotal, firstSession>>

\* Wall-clock time passes, the clock being followed for `limit` steps.
ClockStepTo(limit) ==
  /\ now < limit * StepMs
  /\ now' = now + StepMs
  /\ lastOp' = "clock"
  /\ UNCHANGED <<ratePerSecond, paymentIntervalMs, isStreaming, intervalId,
                 totalPaid, lastPaymentTime, accumulatedSeconds, timers, dueAt,
                 inflight, ticks, routeAvailable, elapsedTotal, firstSession>>

\* Wall-clock time passes.
ClockStep == ClockStepTo(MaxClockSteps)

\* The network changes: a route to the recipient appears or disappears.
RouteChange ==
  /\ routeAvailable' = ~routeAvailable
  /\ lastOp' = "gateway"
  /\ UNCHANGED <<ratePerSecond, paymentIntervalMs, isStreaming, intervalId,
                 totalPaid, lastPaymentTime, accumulatedSeconds, timers, dueAt,
                 now, inflight, ticks, elapsedTotal, firstSession>>

\* getTotalPaid, lines 122-124.
getTotalPaid == totalPaid

\* isActive, lines 130-132.
isActive == isStreaming

(***************************************************************************)
(* The channel setup controller of useFiberNode                            *)
(*                                                                         *)
(* Both revisions are modelled; `revision` says which one runs.  The lists *)
(* kept only for display (channels, peers, nodeInfo) are left out: no      *)
(* control decision reads them.  Channel state names are modelled          *)
(* by what the controller tests: "ready" (ChannelReady / CHANNEL_READY),   *)
(* "closed" (Closed / CLOSED) and "transitioning" (every other state).     *)
(* A channel the node has accepted to open but does not list yet is        *)
(* "unlisted": open_channel answers with a temporary id, and both          *)
(* revisions provide for a poll that finds no channel to the peer.         *)
(***************************************************************************)

SHANNON_PER_CKB == 100000000

\* How many setupChannel calls are followed.
MaxSetupCalls == 1

\* Scale of the poll bound: maxAttempts is 100 in the recipient-keyed
\* revision and 200 in the peer-keyed one; the model keeps the ratio and
\* polls PollScale and 2 * PollScale times.
PollScale == 2

\* Largest value the elapsed-time ticker is followed to.
MaxElapsed == 1

\* maxAttempts: part_004 line 294, use-fiber-node.ts line 252.
maxAttempts == IF revision = "peer" THEN 2 * PollScale ELSE PollScale

NoHandle == [kind |-> "none", owner |-> 0]

\* A setInterval handle: the elapsed ticker or the poll timer of a call.
Handle(kind, a) == [kind |-> kind, owner |-> a]

\* The setupChannel calls that are followed.
SetupIds == DOMAIN setups

\* formatShannon(x, 4): the CKB value rounded to four decimals, in 1/10000 CKB.
formatShannon(shannon) == (shannon + (SHANNON_PER_CKB \div 20000)) \div (SHANNON_PER_CKB \div 10000)

\* local_balance, as the gateway reports it, of a channel just opened and
\* of a channel that existed before any setup: one not a whole number of
\* 1/10000 CKB, one that is.
NewChannelBalance == SHANNON_PER_CKB + (SHANNON_PER_CKB \div 20000)

ExistingBalance == SHANNON_PER_CKB \div 2

(***************************************************************************)
(* Error texts.  String.includes is modelled by the table of the keywords  *)
(* each text contains, as written (use-fiber-node.ts tests errMsg itself)  *)
(* and lower-cased (part_004 tests errMsg.toLowerCase()).                  *)
(***************************************************************************)
MsgNotConnected == "Not connected to Fiber node"
MsgPeerNotFound == "Peer not found"
MsgInsufficient == "insufficient balance"
MsgFetch == "Failed to fetch"
MsgNotInPeerList == "Peer not connected. The recipient node is not in your peer list."
MsgLostPeer == "Lost connection to peer"
MsgClosed == "Channel was closed unexpectedly"
MsgTimeoutRecipient == "Channel opening timed out. The channel may still be pending on-chain confirmation."
MsgTimeoutPeer == "Channel opening timed out. It may still be pending on-chain - try checking the route again in a minute."
GuidancePeer == "Cannot open channel: Peer not connected."
GuidanceFunds == "Cannot open channel: Insufficient funds."

\* The error texts a failing open_channel request is followed with: two
\* refusals of the node, and the network error of fetch.
OpenErrors == {MsgPeerNotFound, MsgInsufficient, MsgFetch}

\* The error text a failing list_channels or list_peers request is followed
\* with.
ListErrors == {MsgFetch}

\* The keywords of the two catch blocks that errMsg contains as written.
Includes(msg) ==
  CASE msg = MsgPeerNotFound  -> {"not found"}
    [] msg = MsgInsufficient  -> {"insufficient", "balance"}
    [] msg = MsgNotInPeerList -> {"peer", "connect"}
    [] msg = MsgLostPeer      -> {"peer", "connect"}
    [] OTHER                  -> {}

\* The keywords that errMsg.toLowerCase() contains.
IncludesLower(msg) ==
  CASE msg = MsgPeerNotFound  -> {"peer", "not found"}
    [] msg = MsgInsufficient  -> {"insufficient", "balance"}
    [] msg = MsgNotInPeerList -> {"peer", "connect", "peer not connected", "not in your peer list"}
    [] msg = MsgLostPeer      -> {"peer", "connect"}
    [] OTHER                  -> {}

GenericError(msg) == "Failed to open channel: " \o msg

\* use-fiber-node.ts lines 325-336: the channelError of the catch block.
ClassifyPeer(msg) ==
  IF Includes(msg) \cap {"peer", "connect", "not found"} # {} THEN GuidancePeer
  ELSE IF Includes(msg) \cap {"insufficient", "balance", "fund"} # {} THEN GuidanceFunds
  ELSE GenericError(msg)

\* Mutant of ClassifyRecipient: the catch block shows the error as thrown.
ClassifyRecipient_Raw(msg) == msg

\* part_004 lines 355-369: the channelError of the catch block.
ClassifyRecipient(msg) ==
  IF IncludesLower(msg) \cap {"peer not connected", "not in your peer list"} # {} THEN GuidancePeer
  ELSE IF IncludesLower(msg) \cap {"insufficient", "balance", "fund"} # {} THEN GuidanceFunds
  ELSE GenericError(msg)

(***************************************************************************)
(* State                                                                   *)
(***************************************************************************)

\* useFiberNode's state after the first render (part_004 lines 50-59,
\* use-fiber-node.ts lines 49-59).  cancelledRef is channelSetupCanceledRef,
\* elapsedRef is channelTimerRef in part_004, which has no pollingRef.
NodeInitial ==
  [ clientRef         |-> FALSE,
    isConnected       |-> FALSE,
    isConnecting      |-> FALSE,
    channelStatus     |-> "idle",
    channelError      |-> "none",
    channelStateName  |-> "none",
    channelElapsed    |-> 0,
    availableBalance  |-> 0,
    cancelledRef      |-> FALSE,
    elapsedRef        |-> NoHandle,
    pollingRef        |-> NoHandle,
    armed             |-> {} ]

\* A setupChannel call not made yet, or over with nothing left in flight.
\* pc: where the call stands; attempts: the poll counter (attempts, i);
\* polls, refreshes: listChannels requests of its poll callbacks in flight
\* (peer-keyed); existing: existingChannelIds; result: what the returned
\* promise resolved to; cancelSeen: history, the status in which
\* cancelChannelSetup found the call; lateRequest: history, the call sent a
\* gateway request after cancelChannelSetup had found it; opened: history,
\* the channel the node began to open for the call (0: none yet).
SetupUnused ==
  [ pc |-> "unused", attempts |-> 0, polls |-> 0, refreshes |-> 0,
    existing |-> {}, result |-> "pending", cancelSeen |-> "none",
    lateRequest |-> FALSE, opened |-> 0 ]

SetupStarted(pc) == [SetupUnused EXCEPT !.pc = pc]

\* A call that is over keeps only its result.
SetupOver(result) ==
  [SetupUnused EXCEPT !.pc = "done", !.result = result]

\* History: the call s sends a gateway request.
Requesting(s) ==
  IF s.cancelSeen = "none" THEN s ELSE [s EXCEPT !.lateRequest = TRUE]

\* A channel of the gateway's list; its channel_id is its place in the list.
GwChannel(toPeer, state, balance) ==
  [toPeer |-> toPeer, state |-> state, local_balance |-> balance]

NewChannel == GwChannel(TRUE, "unlisted", NewChannelBalance)

\* listChannels(): the channels the node lists.
ChannelIds == {i \in DOMAIN gwChannels : gwChannels[i].state # "unlisted"}

\* listChannels filtered by the recipient's peer_id, in list order.
PeerChannelIds == {i \in ChannelIds : gwChannels[i].toPeer}

Max(S) == CHOOSE x \in S : \A y \in S : y <= x

Min(S) == CHOOSE x \in S : \A y \in S : x <= y

ChannelInit ==
  /\ revision \in {"peer", "recipient"}
  /\ node = NodeInitial
  /\ setups = [a \in 1..MaxSetupCalls |-> SetupUnused]
  /\ peerConnected \in BOOLEAN
  /\ gwChannels \in {<<>>, <<GwChannel(TRUE, "ready", ExistingBalance)>>}
  /\ cancelledIn = "none"
  /\ check = "none"

\* The first setupChannel call not made yet.
FreeSetup == Min({a \in SetupIds : setups[a].pc = "unused"})

\* A call is live from setupChannel's first request until it is over.
Live(s) == s.pc \notin {"unused", "done"}

(***************************************************************************)
(* Timers                                                                  *)
(***************************************************************************)

\* clearChannelTimer, part_004 lines 61-66.
ClearChannelTimer(n) ==
  [n EXCEPT !.armed = @ \ {n.elapsedRef}, !.elapsedRef = NoHandle]

\* startChannelTimer, part_004 lines 68-75, for call a.
StartChannelTimer(n, a) ==
  [ClearChannelTimer(n) EXCEPT !.channelElapsed = 0,
                               !.elapsedRef = Handle("elapsed", a),
                               !.armed = @ \cup {Handle("elapsed", a)}]

\* use-fiber-node.ts lines 220-221, 203-204, 93-94 and cleanup, lines 313-316.
ClearPollingTimers(n) ==
  [n EXCEPT !.armed = @ \ {n.pollingRef, n.elapsedRef},
            !.pollingRef = NoHandle,
            !.elapsedRef = NoHandle]

(***************************************************************************)
(* Commands common to both revisions                                       *)
(***************************************************************************)

\* A peer-keyed call is over when nothing of it is in flight and its poll
\* timer is no longer armed: nothing can run its code again.
SettlePeerSetups(ss, n) ==
  [a \in SetupIds |->
     IF /\ ss[a].pc = "live"
        /\ ss[a].polls = 0
        /\ ss[a].refreshes = 0
        /\ Handle("poll", a) \notin n.armed
       THEN SetupOver(ss[a].result)
       ELSE ss[a]]

Settle(ss, n) == IF revision = "peer" THEN SettlePeerSetups(ss, n) ELSE ss

\* connect, up to its first await: the client is created and stored.  One
\* connect call is followed at a time.
Connect ==
  /\ ~node.isConnecting
  /\ node' = [node EXCEPT !.clientRef = TRUE, !.isConnecting = TRUE]
  /\ UNCHANGED <<revision, setups, peerConnected, gwChannels, cancelledIn>>

\* The three requests of connect have come back, or one has failed:
\* use-fiber-node.ts lines 73-88, part_004 lines 85-101.
ConnectSettled(resp) ==
  /\ node.isConnecting
  /\ node' = [node EXCEPT !.isConnected = (resp = "ok"), !.isConnecting = FALSE]
  /\ UNCHANGED <<revision, setups, peerConnected, gwChannels, cancelledIn>>

\* disconnect, use-fiber-node.ts lines 91-108.
DisconnectPeerNode(n) ==
  [ClearPollingTimers(n) EXCEPT !.cancelledRef = TRUE,
                                !.clientRef = FALSE,
                                !.isConnected = FALSE,
                                !.channelStatus = "idle",
                                !.channelError = "none",
                                !.channelStateName = "none",
                                !.channelElapsed = 0,
                                !.availableBalance = 0]

\* disconnect, part_004 lines 104-120.
DisconnectRecipientNode(n) ==
  [ClearChannelTimer(n) EXCEPT !.cancelledRef = FALSE,
                               !.clientRef = FALSE,
                               !.isConnected = FALSE,
                               !.channelStatus = "idle",
                               !.channelError = "none",
                               !.channelStateName = "none",
                               !.channelElapsed = 0,
                               !.availableBalance = 0]

Disconnect ==
  LET n == IF revision = "peer" THEN DisconnectPeerNode(node)
           ELSE DisconnectRecipientNode(node)
  IN /\ node' = n
     /\ setups' = Settle(setups, n)
     /\ cancelledIn' = "none"
     /\ UNCHANGED <<revision, peerConnected, gwChannels>>

\* cancelChannelSetup, use-fiber-node.ts lines 201-209.
CancelPeerNode(n) ==
  [ClearPollingTimers(n) EXCEPT !.cancelledRef = TRUE,
                                !.channelStatus = "idle",
                                !.channelStateName = "none",
                                !.channelElapsed = 0,
                                !.channelError = "none"]

\* cancelChannelSetup, part_004 lines 249-256.
CancelRecipientNode(n) ==
  [ClearChannelTimer(n) EXCEPT !.cancelledRef = TRUE,
                               !.channelStatus = "idle",
                               !.channelError = "none",
                               !.channelStateName = "none",
                               !.channelElapsed = 0]

\* The status is one in which a setup is under way.
SetupUnderWay(n) == n.channelStatus \in {"opening_channel", "waiting_confirmation"}

\* History: the live calls a cancel finds remember the status it found.
MarkCancelled(ss, n) ==
  [a \in SetupIds |->
     IF Live(ss[a]) /\ SetupUnderWay(n) /\ ss[a].cancelSeen = "none"
       THEN [ss[a] EXCEPT !.cancelSeen = n.channelStatus]
       ELSE ss[a]]

CancelChannelSetup ==
  LET n == IF revision = "peer" THEN CancelPeerNode(node)
           ELSE CancelRecipientNode(node)
  IN /\ node' = n
     /\ setups' = Settle(MarkCancelled(setups, node), n)
     /\ cancelledIn' =
          IF cancelledIn = "none" /\ SetupUnderWay(node) /\ \E a \in SetupIds : Live(setups[a])
            THEN node.channelStatus
            ELSE cancelledIn
     /\ UNCHANGED <<revision, peerConnected, gwChannels>>

\* The 1 Hz elapsed ticker h fires (use-fiber-node.ts lines 245-247,
\* part_004 lines 72-74): some number of whole seconds has passed.
ElapsedTimerFire(h, seconds) ==
  /\ h \in node.armed
  /\ h.kind = "elapsed"
  /\ node' = [node EXCEPT !.channelElapsed = seconds]
  /\ UNCHANGED <<revision, setups, peerConnected, gwChannels, cancelledIn>>

\* The gateway: a channel being opened is listed, then becomes ready or is
\* closed.
GatewayChannelProgress(i, state) ==
  /\ i \in DOMAIN gwChannels
  /\ \/ gwChannels[i].state = "unlisted" /\ state = "transitioning"
     \/ gwChannels[i].state = "transitioning" /\ state \in {"ready", "closed"}
  /\ gwChannels' = [gwChannels EXCEPT ![i].state = state]
  /\ UNCHANGED <<revision, node, setups, peerConnected, cancelledIn>>

\* The gateway: the recipient joins or leaves the peer list.
GatewayPeerChange ==
  /\ peerConnected' = ~peerConnected
  /\ UNCHANGED <<revision, node, setups, gwChannels, cancelledIn>>

\* What a gateway request comes back with: a result, or an error text.
OpenResponses == {"ok"} \cup OpenErrors

ListResponses == {"ok"} \cup ListErrors

(***************************************************************************)
(* setupChannel, recipient-keyed (src/unnamed/part_004 lines 258-376)      *)
(***************************************************************************)

\* The catch block, lines 352-373.
RecipientCatch(n, msg) ==
  [ClearChannelTimer(n) EXCEPT !.channelError = ClassifyRecipient(msg),
                               !.channelStatus = "error"]

\* setupChannel up to its first await, lines 259-277.
SetupChannelRecipient ==
  /\ revision = "recipient"
  /\ \E a \in SetupIds : setups[a].pc = "unused"
  /\ IF ~node.clientRef
       THEN /\ node' = [node EXCEPT !.channelError = MsgNotConnected,
                                    !.channelStatus = "error"]
            /\ setups' = setups
       ELSE /\ node' = ClearChannelTimer(
                         [node EXCEPT !.channelStatus = "opening_channel",
                                      !.channelError = "none",
                                      !.channelStateName = "none",
                                      !.channelElapsed = 0,
                                      !.cancelledRef = FALSE])
            /\ setups' = [setups EXCEPT ![FreeSetup] = SetupStarted("listBefore")]
  /\ cancelledIn' = "none"
  /\ UNCHANGED <<revision, peerConnected, gwChannels>>

\* The top of the for loop with index i, lines 297-306: the bound, then the
\* cancel flag, then the sleep of one poll interval.
RecipientLoopNode(n, i) ==
  IF i >= maxAttempts THEN RecipientCatch(n, MsgTimeoutRecipient)
  ELSE IF n.cancelledRef
    THEN [ClearChannelTimer(n) EXCEPT !.channelStatus = "idle",
                                      !.channelStateName = "none",
                                      !.channelElapsed = 0]
    ELSE n

RecipientLoopSetup(s, n, i) ==
  IF i >= maxAttempts \/ n.cancelledRef THEN SetupOver("false")
  ELSE [s EXCEPT !.pc = "sleeping", !.attempts = i]

\* listChannels of line 277 comes back: lines 278-281, up to listPeers in
\* openChannelByPubkey.
RecipientListBeforeResolved(a, resp) ==
  /\ revision = "recipient"
  /\ setups[a].pc = "listBefore"
  /\ IF resp = "ok"
       THEN /\ node' = node
            /\ setups' = [setups EXCEPT ![a] = Requesting(
                             [@ EXCEPT !.pc = "openFindPeer", !.existing = ChannelIds])]
       ELSE /\ node' = RecipientCatch(node, resp)
            /\ setups' = [setups EXCEPT ![a] = SetupOver("false")]
  /\ UNCHANGED <<revision, peerConnected, gwChannels, cancelledIn>>

\* listPeers of openChannelByPubkey comes back (part_002 lines 73-90).
RecipientOpenFindPeerResolved(a, resp) ==
  /\ revision = "recipient"
  /\ setups[a].pc = "openFindPeer"
  /\ IF resp = "ok" /\ peerConnected
       THEN /\ node' = node
            /\ setups' = [setups EXCEPT ![a] = Requesting([@ EXCEPT !.pc = "opening"])]
       ELSE /\ node' = RecipientCatch(node, IF resp = "ok" THEN MsgNotInPeerList ELSE resp)
            /\ setups' = [setups EXCEPT ![a] = SetupOver("false")]
  /\ UNCHANGED <<revision, peerConnected, gwChannels, cancelledIn>>

\* openChannel comes back: lines 283-288.  The gateway accepts the request
\* only for a connected peer, and then lists the new channel.
RecipientOpenResolved(a, resp) ==
  /\ revision = "recipient"
  /\ setups[a].pc = "opening"
  /\ resp = "ok" => peerConnected
  /\ IF resp = "ok"
       THEN /\ gwChannels' = Append(gwChannels, NewChannel)
            /\ node' = StartChannelTimer(
                         [node EXCEPT !.channelStatus = "waiting_confirmation"], a)
            /\ setups' = [setups EXCEPT ![a] = Requesting(
                             [@ EXCEPT !.pc = "findPeer", !.opened = Len(gwChannels) + 1])]
       ELSE /\ gwChannels' = gwChannels
            /\ node' = RecipientCatch(node, resp)
            /\ setups' = [setups EXCEPT ![a] = SetupOver("false")]
  /\ UNCHANGED <<revision, peerConnected, cancelledIn>>

\* listPeers of line 288 comes back: lines 289-306.
RecipientFindPeerResolved(a, resp) ==
  /\ revision = "recipient"
  /\ setups[a].pc = "findPeer"
  /\ IF resp = "ok" /\ peerConnected
       THEN /\ node' = RecipientLoopNode(node, 0)
            /\ setups' = [setups EXCEPT ![a] = RecipientLoopSetup(@, node, 0)]
       ELSE /\ node' = RecipientCatch(node, IF resp = "ok" THEN MsgLostPeer ELSE resp)
            /\ setups' = [setups EXCEPT ![a] = SetupOver("false")]
  /\ UNCHANGED <<revision, peerConnected, gwChannels, cancelledIn>>

\* The sleep of line 306 ends: listChannels of line 308 is sent.
RecipientSleepDone(a) ==
  /\ revision = "recipient"
  /\ setups[a].pc = "sleeping"
  /\ setups' = [setups EXCEPT ![a] = Requesting([@ EXCEPT !.pc = "polling"])]
  /\ UNCHANGED <<revision, node, peerConnected, gwChannels, cancelledIn>>

\* lines 309-312: the channels to the peer that were not there before.
NewPeerChannelIds(s) == PeerChannelIds \ s.existing

NotReady(ids) == {i \in ids : gwChannels[i].state # "ready"}

\* lines 314-318: activeChannel (0: undefined).
ActiveChannel(s) ==
  IF NotReady(NewPeerChannelIds(s)) # {} THEN Min(NotReady(NewPeerChannelIds(s)))
  ELSE IF NewPeerChannelIds(s) # {} THEN Max(NewPeerChannelIds(s))
  ELSE IF NotReady(PeerChannelIds) # {} THEN Min(NotReady(PeerChannelIds))
  ELSE IF PeerChannelIds # {} THEN Max(PeerChannelIds)
  ELSE 0

\* lines 320-322.
WithActiveStateName(n, s) ==
  IF ActiveChannel(s) # 0
    THEN [n EXCEPT !.channelStateName = gwChannels[ActiveChannel(s)].state]
    ELSE n

\* lines 324-326 and 342-344: the new channels in a given state.
NewInState(s, state) == {i \in NewPeerChannelIds(s) : gwChannels[i].state = state}

\* listChannels of line 308 comes back: lines 309-349 and the next loop top.
RecipientPollResolved(a, resp) ==
  LET s  == setups[a]
      n1 == WithActiveStateName(node, s)
  IN /\ revision = "recipient"
     /\ s.pc = "polling"
     /\ IF resp # "ok"
          THEN /\ node' = RecipientCatch(node, resp)
               /\ setups' = [setups EXCEPT ![a] = SetupOver("false")]
          ELSE IF NewInState(s, "ready") # {}
            THEN /\ node' = [ClearChannelTimer(n1) EXCEPT
                               !.availableBalance =
                                  formatShannon(gwChannels[Min(NewInState(s, "ready"))].local_balance),
                               !.channelStateName = "ready",
                               !.channelStatus = "ready"]
                 /\ setups' = [setups EXCEPT ![a] = Requesting([@ EXCEPT !.pc = "refreshing"])]
          ELSE IF NewInState(s, "closed") # {}
            THEN /\ node' = RecipientCatch([n1 EXCEPT !.channelStateName = "closed"], MsgClosed)
                 /\ setups' = [setups EXCEPT ![a] = SetupOver("false")]
          ELSE /\ node' = RecipientLoopNode(n1, s.attempts + 1)
               /\ setups' = [setups EXCEPT ![a] = RecipientLoopSetup(@, n1, s.attempts + 1)]
     /\ UNCHANGED <<revision, peerConnected, gwChannels, cancelledIn>>

\* listChannels of line 335 comes back: lines 336-338, or the catch block.
RecipientRefreshResolved(a, resp) ==
  /\ revision = "recipient"
  /\ setups[a].pc = "refreshing"
  /\ IF resp = "ok"
       THEN /\ node' = node
            /\ setups' = [setups EXCEPT ![a] = SetupOver("true")]
       ELSE /\ node' = RecipientCatch(node, resp)
            /\ setups' = [setups EXCEPT ![a] = SetupOver("false")]
  /\ UNCHANGED <<revision, peerConnected, gwChannels, cancelledIn>>

(***************************************************************************)
(* setupChannel, peer-keyed (src/src/hooks/use-fiber-node.ts lines 211-343)*)
(***************************************************************************)

\* How many listChannels requests of one call's poll callbacks are followed
\* in flight together (the poll timer does not wait for the previous poll).
MaxInFlight == 2

\* setupChannel up to its first await, lines 212-238.
SetupChannelPeer ==
  /\ revision = "peer"
  /\ \E a \in SetupIds : setups[a].pc = "unused"
  /\ IF ~node.clientRef
       THEN /\ node' = [node EXCEPT !.channelError = MsgNotConnected,
                                    !.channelStatus = "error"]
            /\ setups' = setups
       ELSE LET n == [ClearPollingTimers(node) EXCEPT
                        !.cancelledRef = FALSE,
                        !.channelStatus = "opening_channel",
                        !.channelError = "none",
                        !.channelStateName = "none",
                        !.channelElapsed = 0]
            IN /\ node' = n
               /\ setups' = SettlePeerSetups(
                              [setups EXCEPT ![FreeSetup] = SetupStarted("opening")], n)
  /\ cancelledIn' = "none"
  /\ UNCHANGED <<revision, peerConnected, gwChannels>>

\* resolve(r): a promise keeps its first settlement.
Resolved(s, r) == IF s.result = "pending" THEN [s EXCEPT !.result = r] ELSE s

\* poll, lines 256-260: the callback stops without a request.
PollStops(n) == n.cancelledRef \/ ~n.clientRef

\* poll up to its first await, lines 256-265.  The counter is followed up
\* to one past maxAttempts, beyond which no test tells its values apart.
PeerPollNode(n) == IF PollStops(n) THEN ClearPollingTimers(n) ELSE n

PeerPollSetup(n, s) ==
  IF PollStops(n) THEN Resolved(s, "false")
  ELSE Requesting([s EXCEPT !.attempts = IF @ > maxAttempts THEN @ ELSE @ + 1,
                            !.polls = @ + 1])

\* lines 302-310: the bound on attempts, after a poll that did not return.
PeerBoundNode(n, s) ==
  IF s.attempts >= maxAttempts
    THEN ClearPollingTimers([n EXCEPT !.channelError = MsgTimeoutPeer,
                                      !.channelStatus = "error",
                                      !.channelStateName = "none"])
    ELSE n

PeerBoundSetup(s) ==
  IF s.attempts >= maxAttempts THEN Resolved(s, "false") ELSE s

\* openChannel comes back: lines 240-321 up to the first poll's request, or
\* the catch block of lines 322-340.
PeerOpenResolved(a, resp) ==
  /\ revision = "peer"
  /\ setups[a].pc = "opening"
  /\ resp = "ok" => peerConnected
  /\ IF resp = "ok"
       THEN LET n1 == [node EXCEPT !.channelStatus = "waiting_confirmation",
                                   !.elapsedRef = Handle("elapsed", a),
                                   !.armed = @ \cup {Handle("elapsed", a)}]
                n2 == PeerPollNode(n1)
                n3 == [n2 EXCEPT !.pollingRef = Handle("poll", a),
                                 !.armed = @ \cup {Handle("poll", a)}]
                s1 == PeerPollSetup(n1, [setups[a] EXCEPT !.pc = "live",
                                                          !.opened = Len(gwChannels) + 1])
            IN /\ gwChannels' = Append(gwChannels, NewChannel)
               /\ node' = n3
               /\ setups' = SettlePeerSetups([setups EXCEPT ![a] = s1], n3)
       ELSE /\ gwChannels' = gwChannels
            /\ node' = [node EXCEPT !.channelError = ClassifyPeer(resp),
                                    !.channelStatus = "error"]
            /\ setups' = [setups EXCEPT ![a] = SetupOver("false")]
  /\ UNCHANGED <<revision, peerConnected, cancelledIn>>

\* The poll timer of call a fires: poll up to its first await.
PeerPollTimerFire(a) ==
  /\ revision = "peer"
  /\ Handle("poll", a) \in node.armed
  /\ PollStops(node) \/ setups[a].polls + setups[a].refreshes < MaxInFlight
  /\ LET n == PeerPollNode(node)
     IN /\ node' = n
        /\ setups' = SettlePeerSetups(
                       [setups EXCEPT ![a] = PeerPollSetup(node, @)], n)
  /\ UNCHANGED <<revision, peerConnected, gwChannels, cancelledIn>>

\* line 269: the latest channel to the peer (0: undefined).
LatestChannel == IF PeerChannelIds = {} THEN 0 ELSE Max(PeerChannelIds)

\* listChannels of line 265 comes back: lines 266-310 up to the next await.
PeerPollResolved(a, resp) ==
  LET s1 == [setups[a] EXCEPT !.polls = @ - 1]
      st == IF resp = "ok" /\ LatestChannel # 0
              THEN gwChannels[LatestChannel].state ELSE "none"
      nReady == [node EXCEPT
                   !.availableBalance = formatShannon(gwChannels[LatestChannel].local_balance),
                   !.channelStatus = "ready",
                   !.channelStateName = "none"]
      nClosed == ClearPollingTimers([node EXCEPT !.channelError = MsgClosed,
                                                 !.channelStatus = "error",
                                                 !.channelStateName = "none"])
      nOther == IF st = "none" THEN node ELSE [node EXCEPT !.channelStateName = st]
  IN /\ revision = "peer"
     /\ setups[a].polls > 0
     /\ IF st = "ready" /\ node.clientRef
          THEN /\ node' = nReady
               /\ setups' = [setups EXCEPT ![a] = Requesting([s1 EXCEPT !.refreshes = @ + 1])]
          ELSE IF st = "ready"
            THEN /\ node' = PeerBoundNode(nReady, s1)
                 /\ setups' = SettlePeerSetups(
                                [setups EXCEPT ![a] = PeerBoundSetup(s1)],
                                PeerBoundNode(nReady, s1))
          ELSE IF st = "closed"
            THEN /\ node' = nClosed
                 /\ setups' = SettlePeerSetups(
                                [setups EXCEPT ![a] = Resolved(s1, "false")], nClosed)
          ELSE /\ node' = PeerBoundNode(nOther, s1)
               /\ setups' = SettlePeerSetups(
                              [setups EXCEPT ![a] = PeerBoundSetup(s1)],
                              PeerBoundNode(nOther, s1))
     /\ UNCHANGED <<revision, peerConnected, gwChannels, cancelledIn>>

\* listChannels of line 280 comes back: lines 281-285, or the catch of line
\* 297 and the bound.
PeerRefreshResolved(a, resp) ==
  LET s1 == [setups[a] EXCEPT !.refreshes = @ - 1]
      n  == IF resp = "ok" THEN ClearPollingTimers(node) ELSE PeerBoundNode(node, s1)
      s2 == IF resp = "ok" THEN Resolved(s1, "true") ELSE PeerBoundSetup(s1)
  IN /\ revision = "peer"
     /\ setups[a].refreshes > 0
     /\ node' = n
     /\ setups' = SettlePeerSetups([setups EXCEPT ![a] = s2], n)
     /\ UNCHANGED <<revision, peerConnected, gwChannels, cancelledIn>>

(***************************************************************************)
(* checkPaymentRoute (use-fiber-node.ts lines 156-199, part_004 lines      *)
(* 188-247).  One call is followed at a time; `check` names the request    *)
(* the call waits for ("none": no call under way).                         *)
(***************************************************************************)
MsgNoRoute == "No payment route to recipient. Click \"Open Channel\" to create a direct channel."

\* What the dry-run send_payment comes back with: a payment session that
\* is not Failed, one that is, or an error text.
ProbeResponses == {"route", "failed"} \cup ListErrors

\* FiberRpcClient.checkPaymentRoute: fiber-rpc.ts lines 231-243 catches
\* whatever sendPayment throws and returns false; part_002 lines 102-110
\* lets it through.
ProbeThrows(resp) == revision = "recipient" /\ resp \in ListErrors

CanRoute(resp) == resp = "route"

\* findChannelToPeer, part_002 lines 93-99: the first channel to the peer
\* that is ready with a positive local balance (0: null).
findChannelToPeer ==
  LET usable == {i \in PeerChannelIds : /\ gwChannels[i].state = "ready"
                                        /\ gwChannels[i].local_balance > 0}
  IN IF usable = {} THEN 0 ELSE Min(usable)

RECURSIVE BalanceSum(_)
\* The reduce of lines 177-179 (part_004 lines 225-227) over a set of channels.
BalanceSum(ids) ==
  IF ids = {} THEN 0
  ELSE LET i == Min(ids) IN gwChannels[i].local_balance + BalanceSum(ids \ {i})

\* totalBalance: the local balances of all listed ready channels.
TotalReadyBalance == BalanceSum({i \in ChannelIds : gwChannels[i].state = "ready"})

\* The catch block, lines 191-196 (part_004 lines 239-244).
CheckCatch(n, msg) == [n EXCEPT !.channelError = msg, !.channelStatus = "error"]

\* checkPaymentRoute up to its first await: use-fiber-node.ts lines 158-172
\* send the probe, part_004 lines 190-208 send listPeers.
CheckPaymentRoute ==
  /\ check = "none"
  /\ IF ~node.clientRef
       THEN /\ node' = CheckCatch(node, MsgNotConnected)
            /\ check' = check
       ELSE IF revision = "peer"
         THEN /\ node' = [node EXCEPT !.channelStatus = "checking",
                                      !.channelError = "none"]
              /\ check' = "probe"
         ELSE /\ node' = ClearChannelTimer(
                           [node EXCEPT !.channelStatus = "checking",
                                        !.channelError = "none",
                                        !.channelStateName = "none",
                                        !.channelElapsed = 0])
              /\ check' = "findPeer"
  /\ cancelledIn' = "none"
  /\ UNCHANGED <<revision, setups, peerConnected, gwChannels>>

\* listPeers of findPeerIdByPubkey comes back: part_004 lines 208-220.  A
\* recipient that is not in the peer list has no peer id, and the direct
\* channel lookup is skipped.
CheckFindPeerResolved(resp) ==
  /\ revision = "recipient"
  /\ check = "findPeer"
  /\ IF resp # "ok"
       THEN /\ node' = CheckCatch(node, resp)
            /\ check' = "none"
       ELSE /\ node' = node
            /\ check' = IF peerConnected THEN "findChannel" ELSE "probe"
  /\ UNCHANGED <<revision, setups, peerConnected, gwChannels, cancelledIn>>

\* listChannels of findChannelToPeer comes back: part_004 lines 209-220.
CheckFindChannelResolved(resp) ==
  /\ revision = "recipient"
  /\ check = "findChannel"
  /\ IF resp # "ok"
       THEN /\ node' = CheckCatch(node, resp)
            /\ check' = "none"
       ELSE IF findChannelToPeer # 0
         THEN /\ node' = [node EXCEPT
                            !.availableBalance =
                               formatShannon(gwChannels[findChannelToPeer].local_balance),
                            !.channelStatus = "ready"]
              /\ check' = "none"
         ELSE /\ node' = node
              /\ check' = "probe"
  /\ UNCHANGED <<revision, setups, peerConnected, gwChannels, cancelledIn>>

\* The dry-run send_payment comes back: use-fiber-node.ts lines 172-196,
\* part_004 lines 220-244, up to listChannels.
CheckProbeResolved(resp) ==
  /\ check = "probe"
  /\ IF ProbeThrows(resp)
       THEN /\ node' = CheckCatch(node, resp)
            /\ check' = "none"
       ELSE IF CanRoute(resp)
         THEN /\ node' = node
              /\ check' = "list"
         ELSE /\ node' = [node EXCEPT !.channelStatus = "no_route",
                                      !.channelError = MsgNoRoute]
              /\ check' = "none"
  /\ UNCHANGED <<revision, setups, peerConnected, gwChannels, cancelledIn>>

\* listChannels of line 176 (part_004 line 224) comes back.
CheckListResolved(resp) ==
  /\ check = "list"
  /\ IF resp # "ok"
       THEN node' = CheckCatch(node, resp)
       ELSE node' = [node EXCEPT !.availableBalance = formatShannon(TotalReadyBalance),
                                 !.channelStatus = "ready"]
  /\ check' = "none"
  /\ UNCHANGED <<revision, setups, peerConnected, gwChannels, cancelledIn>>

(***************************************************************************)
(* The page (src/src/app/page.tsx, src/src/components/AudioPlayer.tsx).    *)
(* A render follows every state change before the next event is handled:   *)
(* the props isFiberConnected and isRouteReady of page.tsx lines 177-178    *)
(* are read from the controller's state.                                   *)
(***************************************************************************)
MsgGuardNotConnected == "Fiber node is not connected. Connect your node before playing."
MsgGuardNoRoute == "No payment route available. Click \"Check Route\" before playing."
MsgGuardNotStarted == "Unable to start payment stream."

\* page.tsx line 177.
isFiberConnected == node.isConnected

\* page.tsx line 178.
isRouteReady == node.channelStatus = "ready"

\* What `await payment.start()` of line 83 yields: start of
\* useStreamingPayment (part_005 lines 52-61) returns nothing.
started == FALSE

\* Mutant of HandlePlayPause: the route guard of lines 76-79 is missing.
HandlePlayPause_NoRouteGuard ==
  /\ UNCHANGED <<channelVars, hookVars, mockVars>>
  /\ IF isPlaying
       THEN /\ isPlaying' = FALSE
            /\ StopStreaming
            /\ UNCHANGED playbackGuardError
       ELSE IF ~isFiberConnected
         THEN /\ playbackGuardError' = MsgGuardNotConnected
              /\ UNCHANGED <<billingVars, isPlaying>>
         ELSE /\ StartStreaming
              /\ isPlaying' = started
              /\ playbackGuardError' = IF started THEN "none" ELSE MsgGuardNotStarted

\* handlePlayPause, AudioPlayer.tsx lines 66-91: the play button is pressed.
\* payment.start() runs startStreaming within the call; audio.pause() and
\* audio.play() are followed to the pause and play events that set isPlaying.
HandlePlayPause ==
  /\ UNCHANGED <<channelVars, hookVars, mockVars>>
  /\ IF isPlaying
       THEN /\ isPlaying' = FALSE
            /\ StopStreaming
            /\ UNCHANGED playbackGuardError
       ELSE IF ~isFiberConnected
         THEN /\ playbackGuardError' = MsgGuardNotConnected
              /\ UNCHANGED <<billingVars, isPlaying>>
       ELSE IF ~isRouteReady
         THEN /\ playbackGuardError' = MsgGuardNoRoute
              /\ UNCHANGED <<billingVars, isPlaying>>
         ELSE /\ StartStreaming
              /\ isPlaying' = started
              /\ playbackGuardError' = IF started THEN "none" ELSE MsgGuardNotStarted

(***************************************************************************)
(* useStreamingPayment (src/unnamed/part_005): what its subscriber keeps   *)
(* of the ticks the service hands to it.  A tick is followed by its number *)
(* in the order of emission and its status.                                *)
(***************************************************************************)

\* The argument of slice in line 39, negated: prev.slice(-50).
HistorySlice == 50

\* The ticks followed beyond HistorySlice.
ExtraTicks == 5

MaxEmitted == HistorySlice + ExtraTicks

\* lastPayment before the first tick (null).
NoPayment == [number |-> 0, status |-> "none"]

\* Array.prototype.slice(-n): the last n elements, all of them when there
\* are fewer.
SliceLast(seq, n) ==
  IF Len(seq) <= n THEN seq ELSE SubSeq(seq, Len(seq) - n + 1, Len(seq))

\* The subscriber of lines 35-43, called with the next tick: setLastPayment
\* and setPaymentHistory((prev) => [...prev.slice(-50), tick]).
OnPayment(status) ==
  LET tick == [number |-> lastPayment.number + 1, status |-> status]
  IN /\ lastPayment.number < MaxEmitted
     /\ lastPayment' = tick
     /\ paymentHistory' = Append(SliceLast(paymentHistory, HistorySlice), tick.number)
     /\ UNCHANGED <<isPlaying, playbackGuardError>>

(***************************************************************************)
(* MockStreamingPaymentService (src/src/lib/streaming-payment.ts lines      *)
(* 151-234), the service of the demo mode.  It holds the same configuration *)
(* as the service it extends (mockConfig, lines 162-166) and keeps its own  *)
(* fields; its ticks are made and delivered in the timer callback itself.   *)
(***************************************************************************)

\* The fields after construction, lines 152-158.
MockAtRest ==
  /\ mockTotalPaid = 0
  /\ mockIsStreaming = FALSE
  /\ mockIntervalId = FALSE
  /\ mockLastTime = 0
  /\ mockAccumulated = 0
  /\ mockTicks = <<>>

\* startStreaming of the mock, lines 174-183.
MockStartStreaming ==
  IF mockIsStreaming
    THEN UNCHANGED mockVars
    ELSE /\ mockIsStreaming' = TRUE
         /\ mockLastTime' = now
         /\ mockAccumulated' = 0
         /\ mockIntervalId' = TRUE
         /\ UNCHANGED <<mockTotalPaid, mockTicks>>

\* stopStreaming of the mock, lines 185-193.
MockStopStreaming ==
  IF ~mockIsStreaming
    THEN UNCHANGED mockVars
    ELSE /\ mockIsStreaming' = FALSE
         /\ mockIntervalId' = FALSE
         /\ UNCHANGED <<mockTotalPaid, mockLastTime, mockAccumulated, mockTicks>>

\* mockProcessTick, lines 195-217, run by the interval callback.
MockProcessTick ==
  LET accumulated  == mockAccumulated + (now - mockLastTime)
      secondsToPay == accumulated \div MsPerSecond
      amount       == ckbToShannon(ratePerSecond * secondsToPay)
  IN /\ mockIntervalId
     /\ mockLastTime' = now
     /\ IF secondsToPay <= 0
          THEN /\ mockAccumulated' = accumulated
               /\ UNCHANGED <<mockTotalPaid, mockTicks>>
          ELSE /\ mockAccumulated' = accumulated - secondsToPay * MsPerSecond
               /\ mockTotalPaid' = mockTotalPaid + amount
               /\ mockTicks' = Append(mockTicks,
                                  [ timestamp        |-> now,
                                    amountShannon    |-> amount,
                                    totalPaidShannon |-> mockTotalPaid + amount,
                                    status           |-> "success" ])
     /\ UNCHANGED <<mockIsStreaming, mockIntervalId>>

(***************************************************************************)
(* Specifications                                                          *)
(***************************************************************************)

\* The controller before connect, with no gateway activity.
ChannelAtRest ==
  /\ revision = "recipient"
  /\ node = NodeInitial
  /\ setups = [a \in 1..MaxSetupCalls |-> SetupUnused]
  /\ peerConnected = FALSE
  /\ gwChannels = <<>>
  /\ cancelledIn = "none"
  /\ check = "none"

\* The payment service as constructed by the page, never started.
BillingAtRest ==
  /\ BillingInit
  /\ ratePerSecond = DemoRateShannon * SubShannon
  /\ paymentIntervalMs = 2 * StepMs
  /\ routeAvailable = FALSE

\* The page as first rendered: the audio element is paused.
PageAtRest ==
  /\ MockAtRest
  /\ isPlaying = FALSE
  /\ playbackGuardError = "none"
  /\ paymentHistory = <<>>
  /\ lastPayment = NoPayment

\* The payment service; the controller, a separate object, stays at rest.
Init == BillingInit /\ ChannelAtRest /\ PageAtRest

Next ==
  \/ StartStreaming /\ UNCHANGED <<channelVars, pageVars, mockVars>>
  \/ StopStreaming /\ UNCHANGED <<channelVars, pageVars, mockVars>>
  \/ TimerFire /\ UNCHANGED <<channelVars, pageVars, mockVars>>
  \/ \E t \in inflight, outcome \in SendOutcomes :
       KeysendSettled(t, outcome) /\ UNCHANGED <<channelVars, pageVars, mockVars>>
  \/ ClockStep /\ UNCHANGED <<channelVars, pageVars, mockVars>>
  \/ RouteChange /\ UNCHANGED <<channelVars, pageVars, mockVars>>

Spec == Init /\ [][Next]_vars

\* The payment service with the page's configuration (page.tsx lines
\* 108-113), its clock followed for one second more.
InitLong == BillingAtRest /\ ChannelAtRest /\ PageAtRest

NextLong ==
  \/ StartStreaming /\ UNCHANGED <<channelVars, pageVars, mockVars>>
  \/ StopStreaming /\ UNCHANGED <<channelVars, pageVars, mockVars>>
  \/ TimerFire /\ UNCHANGED <<channelVars, pageVars, mockVars>>
  \/ \E t \in inflight, outcome \in SendOutcomes :
       KeysendSettled(t, outcome) /\ UNCHANGED <<channelVars, pageVars, mockVars>>
  \/ ClockStepTo(MaxClockSteps + StepsPerSecond) /\ UNCHANGED <<channelVars, pageVars, mockVars>>
  \/ RouteChange /\ UNCHANGED <<channelVars, pageVars, mockVars>>

SpecLong == InitLong /\ [][NextLong]_vars

\* The constructor's default for a missing or zero paymentIntervalMs (line 38).
DefaultPaymentIntervalMs == 5000

\* constructor, lines 35-42: the paymentIntervalMs the service keeps for the
\* one it is given; `||` replaces 0 (and undefined) by the default, and
\* nothing else is tested.
ConstructedIntervalMs(given) ==
  IF given = 0 THEN DefaultPaymentIntervalMs ELSE given

\* Configurations handed to the constructor, those of BillingInit and
\* others: a negative and a zero rate, a negative and a zero interval.
ConfigRates == {0 - SubShannon, 0, SubShannon}

ConfigIntervals == {0 - StepMs, 0, 2 * StepMs}

\* What the gateway can answer to the keysend of tick t: the amount is an
\* unsigned integer there, so a negative one is never paid.
KeysendAnswers(t) ==
  IF t.amountShannon < 0 THEN {"Failed", "throw"} ELSE SendOutcomes

\* The payment service as the constructor leaves it for any configuration.
\* An interval timer with a negative delay is due at once, every time.
InitConfig ==
  /\ ratePerSecond \in ConfigRates
  /\ paymentIntervalMs \in {ConstructedIntervalMs(i) : i \in ConfigIntervals}
  /\ isStreaming = FALSE
  /\ intervalId = NoTimer
  /\ totalPaid = 0
  /\ lastPaymentTime = 0
  /\ accumulatedSeconds = 0
  /\ timers = {}
  /\ dueAt = 0
  /\ now = 0
  /\ inflight = {}
  /\ ticks = <<>>
  /\ routeAvailable \in BOOLEAN
  /\ elapsedTotal = 0
  /\ firstSession = TRUE
  /\ lastOp = "init"
  /\ ChannelAtRest
  /\ PageAtRest

NextConfig ==
  \/ StartStreaming /\ UNCHANGED <<channelVars, pageVars, mockVars>>
  \/ StopStreaming /\ UNCHANGED <<channelVars, pageVars, mockVars>>
  \/ TimerFire /\ UNCHANGED <<channelVars, pageVars, mockVars>>
  \/ \E t \in inflight : \E outcome \in KeysendAnswers(t) :
       KeysendSettled(t, outcome) /\ UNCHANGED <<channelVars, pageVars, mockVars>>
  \/ ClockStep /\ UNCHANGED <<channelVars, pageVars, mockVars>>
  \/ RouteChange /\ UNCHANGED <<channelVars, pageVars, mockVars>>

SpecConfig == InitConfig /\ [][NextConfig]_vars

\* The demo service and the payment service driven by the same calls, the
\* same timer callbacks and the same clock, every keysend of the payment
\* service settling with status Success after any delay.
InitMock == BillingInit /\ ChannelAtRest /\ PageAtRest

NextMock ==
  \/ StartStreaming /\ MockStartStreaming /\ UNCHANGED <<channelVars, pageVars>>
  \/ StopStreaming /\ MockStopStreaming /\ UNCHANGED <<channelVars, pageVars>>
  \/ TimerFire /\ MockProcessTick /\ UNCHANGED <<channelVars, pageVars>>
  \/ \E t \in inflight :
       KeysendSettled(t, "Success") /\ UNCHANGED <<channelVars, pageVars, mockVars>>
  \/ ClockStep /\ UNCHANGED <<channelVars, pageVars, mockVars>>

SpecMock == InitMock /\ [][NextMock]_vars

\* The hook's subscriber under any sequence of emitted ticks; the service
\* and the controller are not followed.
InitHistory == BillingAtRest /\ ChannelAtRest /\ PageAtRest

NextHistory ==
  \E status \in {"success", "failed"} :
     OnPayment(status) /\ UNCHANGED <<billingVars, channelVars, mockVars>>

SpecHistory == InitHistory /\ [][NextHistory]_vars

\* The controller; the payment service stays at rest.
InitChannel == ChannelInit /\ BillingAtRest /\ PageAtRest

NextChannel ==
  \/ Connect /\ UNCHANGED <<billingVars, check, pageVars, mockVars>>
  \/ \E resp \in ListResponses :
       ConnectSettled(resp) /\ UNCHANGED <<billingVars, check, pageVars, mockVars>>
  \/ Disconnect /\ UNCHANGED <<billingVars, check, pageVars, mockVars>>
  \/ CancelChannelSetup /\ UNCHANGED <<billingVars, check, pageVars, mockVars>>
  \/ \E h \in node.armed, seconds \in 1..MaxElapsed :
       ElapsedTimerFire(h, seconds) /\ UNCHANGED <<billingVars, check, pageVars, mockVars>>
  \/ \E i \in DOMAIN gwChannels, state \in {"transitioning", "ready", "closed"} :
       GatewayChannelProgress(i, state) /\ UNCHANGED <<billingVars, check, pageVars, mockVars>>
  \/ GatewayPeerChange /\ UNCHANGED <<billingVars, check, pageVars, mockVars>>
  \/ SetupChannelRecipient /\ UNCHANGED <<billingVars, check, pageVars, mockVars>>
  \/ \E a \in SetupIds, resp \in ListResponses :
       RecipientListBeforeResolved(a, resp) /\ UNCHANGED <<billingVars, check, pageVars, mockVars>>
  \/ \E a \in SetupIds, resp \in ListResponses :
       RecipientOpenFindPeerResolved(a, resp) /\ UNCHANGED <<billingVars, check, pageVars, mockVars>>
  \/ \E a \in SetupIds, resp \in OpenResponses :
       RecipientOpenResolved(a, resp) /\ UNCHANGED <<billingVars, check, pageVars, mockVars>>
  \/ \E a \in SetupIds, resp \in ListResponses :
       RecipientFindPeerResolved(a, resp) /\ UNCHANGED <<billingVars, check, pageVars, mockVars>>
  \/ \E a \in SetupIds : RecipientSleepDone(a) /\ UNCHANGED <<billingVars, check, pageVars, mockVars>>
  \/ \E a \in SetupIds, resp \in ListResponses :
       RecipientPollResolved(a, resp) /\ UNCHANGED <<billingVars, check, pageVars, mockVars>>
  \/ \E a \in SetupIds, resp \in ListResponses :
       RecipientRefreshResolved(a, resp) /\ UNCHANGED <<billingVars, check, pageVars, mockVars>>
  \/ SetupChannelPeer /\ UNCHANGED <<billingVars, check, pageVars, mockVars>>
  \/ \E a \in SetupIds, resp \in OpenResponses :
       PeerOpenResolved(a, resp) /\ UNCHANGED <<billingVars, check, pageVars, mockVars>>
  \/ \E a \in SetupIds : PeerPollTimerFire(a) /\ UNCHANGED <<billingVars, check, pageVars, mockVars>>
  \/ \E a \in SetupIds, resp \in ListResponses :
       PeerPollResolved(a, resp) /\ UNCHANGED <<billingVars, check, pageVars, mockVars>>
  \/ \E a \in SetupIds, resp \in ListResponses :
       PeerRefreshResolved(a, resp) /\ UNCHANGED <<billingVars, check, pageVars, mockVars>>

SpecChannel == InitChannel /\ [][NextChannel]_vars

\* The controller with its route check.
NextRoute ==
  \/ NextChannel
  \/ CheckPaymentRoute /\ UNCHANGED <<billingVars, pageVars, mockVars>>
  \/ \E resp \in ListResponses :
       CheckFindPeerResolved(resp) /\ UNCHANGED <<billingVars, pageVars, mockVars>>
  \/ \E resp \in ListResponses :
       CheckFindChannelResolved(resp) /\ UNCHANGED <<billingVars, pageVars, mockVars>>
  \/ \E resp \in ProbeResponses :
       CheckProbeResolved(resp) /\ UNCHANGED <<billingVars, pageVars, mockVars>>
  \/ \E resp \in ListResponses :
       CheckListResolved(resp) /\ UNCHANGED <<billingVars, pageVars, mockVars>>

SpecRoute == InitChannel /\ [][NextRoute]_vars

\* NodeStatus.tsx line 234.
isChannelBusy ==
  node.channelStatus \in {"checking", "opening_channel", "waiting_confirmation"}

\* What runs without the user: requests coming back, timers, the gateway.
NextBackground ==
  \/ \E resp \in ListResponses : ConnectSettled(resp)
  \/ \E h \in node.armed, seconds \in 1..MaxElapsed : ElapsedTimerFire(h, seconds)
  \/ \E i \in DOMAIN gwChannels, state \in {"transitioning", "ready", "closed"} :
       GatewayChannelProgress(i, state)
  \/ GatewayPeerChange
  \/ \E a \in SetupIds, resp \in ListResponses : RecipientListBeforeResolved(a, resp)
  \/ \E a \in SetupIds, resp \in ListResponses : RecipientOpenFindPeerResolved(a, resp)
  \/ \E a \in SetupIds, resp \in OpenResponses : RecipientOpenResolved(a, resp)
  \/ \E a \in SetupIds, resp \in ListResponses : RecipientFindPeerResolved(a, resp)
  \/ \E a \in SetupIds : RecipientSleepDone(a)
  \/ \E a \in SetupIds, resp \in ListResponses : RecipientPollResolved(a, resp)
  \/ \E a \in SetupIds, resp \in ListResponses : RecipientRefreshResolved(a, resp)
  \/ \E a \in SetupIds, resp \in OpenResponses : PeerOpenResolved(a, resp)
  \/ \E a \in SetupIds : PeerPollTimerFire(a)
  \/ \E a \in SetupIds, resp \in ListResponses : PeerPollResolved(a, resp)
  \/ \E a \in SetupIds, resp \in ListResponses : PeerRefreshResolved(a, resp)

\* The page: the buttons of NodeStatus as it offers them (NodeStatus.tsx
\* lines 283-284, 386-398, 415-429: Connect or Disconnect unless connecting;
\* on a connected node Cancel while waiting for confirmation, Check Route
\* unless busy, Open Channel after no_route or error unless busy) and the
\* play button.  The payment service is started and stopped; its timer and
\* its clock are not followed.
NextPage ==
  \/ ~node.isConnected /\ Connect /\ UNCHANGED <<billingVars, check, pageVars, mockVars>>
  \/ /\ node.isConnected /\ ~node.isConnecting
     /\ Disconnect /\ UNCHANGED <<billingVars, check, pageVars, mockVars>>
  \/ /\ node.isConnected /\ node.channelStatus = "waiting_confirmation"
     /\ CancelChannelSetup /\ UNCHANGED <<billingVars, check, pageVars, mockVars>>
  \/ /\ node.isConnected /\ ~isChannelBusy
     /\ CheckPaymentRoute /\ UNCHANGED <<billingVars, pageVars, mockVars>>
  \/ /\ node.isConnected /\ node.channelStatus \in {"no_route", "error"}
     /\ SetupChannelRecipient /\ UNCHANGED <<billingVars, check, pageVars, mockVars>>
  \/ /\ node.isConnected /\ node.channelStatus \in {"no_route", "error"}
     /\ SetupChannelPeer /\ UNCHANGED <<billingVars, check, pageVars, mockVars>>
  \/ NextBackground /\ UNCHANGED <<billingVars, check, pageVars, mockVars>>
  \/ \E resp \in ListResponses :
       CheckFindPeerResolved(resp) /\ UNCHANGED <<billingVars, pageVars, mockVars>>
  \/ \E resp \in ListResponses :
       CheckFindChannelResolved(resp) /\ UNCHANGED <<billingVars, pageVars, mockVars>>
  \/ \E resp \in ProbeResponses :
       CheckProbeResolved(resp) /\ UNCHANGED <<billingVars, pageVars, mockVars>>
  \/ \E resp \in ListResponses :
       CheckListResolved(resp) /\ UNCHANGED <<billingVars, pageVars, mockVars>>
  \/ HandlePlayPause

SpecPage == InitChannel /\ [][NextPage]_vars

\* Overlapping setup calls: one more setupChannel call is followed, on a
\* connected node whose gateway answers every request and whose recipient
\* stays in the peer list.
InitOverlap ==
  /\ revision \in {"peer", "recipient"}
  /\ node = [NodeInitial EXCEPT !.clientRef = TRUE, !.isConnected = TRUE]
  /\ setups = [a \in 1..(MaxSetupCalls + 1) |-> SetupUnused]
  /\ peerConnected = TRUE
  /\ gwChannels = <<>>
  /\ cancelledIn = "none"
  /\ check = "none"
  /\ BillingAtRest
  /\ PageAtRest

NextOverlap ==
  \/ CancelChannelSetup /\ UNCHANGED <<billingVars, check, pageVars, mockVars>>
  \/ \E i \in DOMAIN gwChannels, state \in {"transitioning", "ready", "closed"} :
       GatewayChannelProgress(i, state) /\ UNCHANGED <<billingVars, check, pageVars, mockVars>>
  \/ SetupChannelRecipient /\ UNCHANGED <<billingVars, check, pageVars, mockVars>>
  \/ \E a \in SetupIds : RecipientListBeforeResolved(a, "ok") /\ UNCHANGED <<billingVars, check, pageVars, mockVars>>
  \/ \E a \in SetupIds : RecipientOpenFindPeerResolved(a, "ok") /\ UNCHANGED <<billingVars, check, pageVars, mockVars>>
  \/ \E a \in SetupIds : RecipientOpenResolved(a, "ok") /\ UNCHANGED <<billingVars, check, pageVars, mockVars>>
  \/ \E a \in SetupIds : RecipientFindPeerResolved(a, "ok") /\ UNCHANGED <<billingVars, check, pageVars, mockVars>>
  \/ \E a \in SetupIds : RecipientSleepDone(a) /\ UNCHANGED <<billingVars, check, pageVars, mockVars>>
  \/ \E a \in SetupIds : RecipientPollResolved(a, "ok") /\ UNCHANGED <<billingVars, check, pageVars, mockVars>>
  \/ \E a \in SetupIds : RecipientRefreshResolved(a, "ok") /\ UNCHANGED <<billingVars, check, pageVars, mockVars>>
  \/ SetupChannelPeer /\ UNCHANGED <<billingVars, check, pageVars, mockVars>>
  \/ \E a \in SetupIds : PeerOpenResolved(a, "ok") /\ UNCHANGED <<billingVars, check, pageVars, mockVars>>
  \/ \E a \in SetupIds : PeerPollTimerFire(a) /\ UNCHANGED <<billingVars, check, pageVars, mockVars>>
  \/ \E a \in SetupIds : PeerPollResolved(a, "ok") /\ UNCHANGED <<billingVars, check, pageVars, mockVars>>
  \/ \E a \in SetupIds : PeerRefreshResolved(a, "ok") /\ UNCHANGED <<billingVars, check, pageVars, mockVars>>

SpecOverlap == InitOverlap /\ [][NextOverlap]_vars

(***************************************************************************)
(* Claims about the billing engine (specification Spec)                    *)
(***************************************************************************)

RECURSIVE SuccessSum(_)
\* The sum of the amounts of the success ticks of a sequence of ticks.
SuccessSum(s) ==
  IF s = <<>> THEN 0
  ELSE (IF Head(s).status = "success" THEN Head(s).amountShannon ELSE 0)
       + SuccessSum(Tail(s))

RECURSIVE AmountSum(_)
\* The sum of the amounts of a set of ticks.
AmountSum(S) ==
  IF S = {} THEN 0
  ELSE LET t == CHOOSE x \in S : TRUE
       IN t.amountShannon + AmountSum(S \ {t})

LastTick == ticks[Len(ticks)]

\* C1 (as claimed): value conservation.  In the first session and for a rate
\* of a whole number of shannon per second, the amounts of the success ticks,
\* plus the amount accrued and not yet successfully sent, plus rate times the
\* fractional accumulatedSeconds, equal rate times the elapsed time the ticks
\* have seen.  (Both sides are scaled by SubShannon * MsPerSecond.)
C1_ValueConservation ==
  (firstSession /\ ratePerSecond % SubShannon = 0) =>
     SubShannon * MsPerSecond * (SuccessSum(ticks) + AmountSum(inflight))
       + ratePerSecond * accumulatedSeconds
     = ratePerSecond * elapsedTotal

\* C2 (as claimed): a failed send never discards the owed amount.  When a
\* tick fails and the next tick, made after that failure, succeeds, the
\* successful tick's amount is the failed amount plus its own accrual.
C2_FailedSendCarried ==
  firstSession =>
    \A i \in 1..(Len(ticks) - 1) :
      ( /\ ticks[i].status = "failed"
        /\ ticks[i + 1].status = "success"
        /\ ticks[i + 1].resolvedBefore >= i )
      => ticks[i + 1].amountShannon
           = ticks[i].amountShannon
             + ckbToShannon(ratePerSecond * ticks[i + 1].secondsToPay)

\* C3: totalPaid, as getTotalPaid returns it, never decreases; it changes
\* only in a step that delivers a success tick, and then by exactly that
\* tick's amount; a step that delivers a failed tick leaves it unchanged.
C3_TotalPaidMonotone ==
  [][ /\ getTotalPaid' >= getTotalPaid
      /\ (getTotalPaid' # getTotalPaid =>
            /\ Len(ticks') = Len(ticks) + 1
            /\ ticks'[Len(ticks')].status = "success"
            /\ getTotalPaid' = getTotalPaid + ticks'[Len(ticks')].amountShannon)
      /\ (Len(ticks') = Len(ticks) + 1 =>
            /\ ticks'[Len(ticks')].status = "success" =>
                  getTotalPaid' = getTotalPaid + ticks'[Len(ticks')].amountShannon
            /\ ticks'[Len(ticks')].status = "failed" =>
                  getTotalPaid' = getTotalPaid)
    ]_vars

\* C3 witness: the engine was started and stopped, a success tick and a
\* failed tick were delivered, and something was paid.
C3_Witness ==
  /\ ~isStreaming
  /\ ~firstSession
  /\ getTotalPaid > 0
  /\ \E i, j \in 1..Len(ticks) :
        ticks[i].status = "success" /\ ticks[j].status = "failed"

\* C4 (as claimed): no payment send of less than the minimum threshold is
\* ever issued; in particular no tick, in flight or delivered, has an amount
\* of 0 shannon.
C4_NoSendBelowThreshold ==
  /\ \A t \in inflight : t.amountShannon > 0
  /\ \A i \in 1..Len(ticks) : ticks[i].amountShannon > 0

\* C5 (as claimed): billing ticks never overlap; at most one payment send
\* issued by a timer-driven tick is in flight at any moment.
C5_AtMostOneSendInFlight ==
  Cardinality({t \in inflight : ~t.awaitedByStop}) <= 1

C7_StartProbesRoute ==
  [][ (~isActive /\ isActive') => checkPaymentRoute ]_vars

\* C8: a start on a streaming engine and a stop on an inactive engine change
\* nothing of the engine (no timer armed, accumulatedSeconds and the last-tick
\* time kept), and at most one billing timer is armed at any time.
C8_StartStopIdempotent ==
  /\ [](Cardinality(timers) <= 1)
  /\ [][ ((lastOp' = "start" /\ isStreaming) \/ (lastOp' = "stop" /\ ~isStreaming)) =>
            UNCHANGED <<isStreaming, intervalId, timers, dueAt, accumulatedSeconds,
                        lastPaymentTime, totalPaid, inflight, ticks>>
        ]_vars

\* C8 witness: start was called on a streaming engine that holds a
\* fractional second, which a fresh start would have reset.
C8_Witness ==
  /\ lastOp = "start"
  /\ isStreaming
  /\ accumulatedSeconds > 0
  /\ Cardinality(timers) = 1

(***************************************************************************)
(* Claims about the channel setup controller (specification SpecChannel)   *)
(***************************************************************************)

\* C9: when cancel is called while the status is waiting_confirmation, the
\* setup attempt that was under way sends no further gateway request (no
\* listChannels), and the status it leaves behind when it is over is idle.
C9_CancelStopsAttempt ==
  /\ \A a \in SetupIds :
       setups[a].cancelSeen = "waiting_confirmation" => ~setups[a].lateRequest
  /\ (cancelledIn = "waiting_confirmation" /\ \A a \in SetupIds : ~Live(setups[a]))
       => node.channelStatus = "idle"

\* C10: cancellation is a clean abort: from a cancel of a setup under way
\* until the next setupChannel or disconnect, the status is never
\* waiting_confirmation, ready or error.
C10_CancelIsCleanAbort ==
  cancelledIn # "none" =>
    node.channelStatus \notin {"waiting_confirmation", "ready", "error"}

\* A poll of call a comes back and lists the channel opened for a as closed.
ObservesClosed(a) ==
  /\ setups[a].opened # 0
  /\ gwChannels[setups[a].opened].state = "closed"
  /\ RecipientPollResolved(a, "ok") \/ PeerPollResolved(a, "ok")

\* A poll of call a comes back and the status becomes ready.
PollReportsReady(a) ==
  /\ \E resp \in ListResponses :
       RecipientPollResolved(a, resp) \/ PeerPollResolved(a, resp)
  /\ node.channelStatus # "ready"
  /\ node'.channelStatus = "ready"

\* C11: a poll that finds the newly opened channel closed ends the setup
\* attempt with status error and the closed-unexpectedly message, the
\* attempt's promise resolving to false; and no poll of an attempt whose
\* channel is closed turns the status to ready.
C11_ClosedEndsInError ==
  [][\A a \in SetupIds :
       /\ ObservesClosed(a) =>
            /\ node'.channelStatus = "error"
            /\ node'.channelError \in {MsgClosed, GenericError(MsgClosed)}
            /\ setups'[a].result = "false"
       /\ PollReportsReady(a) =>
            (setups[a].opened # 0 => gwChannels[setups[a].opened].state # "closed")
    ]_vars

(***************************************************************************)
(* Claims about the route check (specification SpecRoute)                  *)
(***************************************************************************)

\* The listed channels to the recipient that are ready with a positive
\* local balance.
DirectChannelIds ==
  {i \in PeerChannelIds : gwChannels[i].state = "ready" /\ gwChannels[i].local_balance > 0}

\* A step of checkPaymentRoute sends the dry-run probe.
SendsProbe == check # "probe" /\ check' = "probe"

\* C12: while the gateway lists a ready channel with positive local balance
\* to the recipient, no step of checkPaymentRoute sends the dry-run probe,
\* and the direct channel lookup that comes back ends the check with status
\* ready and the balance of such a channel.
C12_PrefersDirectChannel ==
  [][DirectChannelIds # {} =>
       /\ ~SendsProbe
       /\ CheckFindChannelResolved("ok") =>
            /\ node'.channelStatus = "ready"
            /\ check' = "none"
            /\ \E i \in DirectChannelIds :
                 node'.availableBalance = formatShannon(gwChannels[i].local_balance)
    ]_vars

\* C13: a route check sets the status to checking; a probe that comes back
\* with a payment that is not Failed leads, once the channels are listed,
\* to ready with the sum of the local balances of all ready channels; a
\* probe that comes back Failed ends the check with no_route and the
\* guidance message; a request of the check that fails with a transport
\* error ends it with status error, never no_route.
C13_CheckOutcomes ==
  [][/\ (CheckPaymentRoute /\ node.clientRef) => node'.channelStatus = "checking"
     /\ CheckProbeResolved("route") => (check' = "list" /\ node' = node)
     /\ CheckListResolved("ok") =>
          /\ node'.channelStatus = "ready"
          /\ node'.availableBalance = formatShannon(TotalReadyBalance)
     /\ CheckProbeResolved("failed") =>
          /\ node'.channelStatus = "no_route"
          /\ node'.channelError = MsgNoRoute
     /\ \A err \in ListErrors :
          (\/ CheckFindPeerResolved(err)
           \/ CheckFindChannelResolved(err)
           \/ CheckProbeResolved(err)
           \/ CheckListResolved(err)) =>
            /\ node'.channelStatus = "error"
            /\ check' = "none"
    ]_vars

\* A step is a command of the controller's interface, up to its first await.
Command ==
  \/ CancelChannelSetup
  \/ Disconnect
  \/ SetupChannelPeer
  \/ SetupChannelRecipient
  \/ CheckPaymentRoute

\* The open request of some setup call comes back accepted.
OpenSucceeded ==
  \E a \in SetupIds : RecipientOpenResolved(a, "ok") \/ PeerOpenResolved(a, "ok")

\* C14: every change of the channel status that is not the immediate effect
\* of a command follows the state machine: from checking only to ready,
\* no_route or error; to waiting_confirmation only from opening_channel, by
\* the step in which the open request comes back accepted; to ready only
\* from checking or waiting_confirmation; to error only from checking,
\* opening_channel or waiting_confirmation; to no_route only from checking;
\* and the status becomes idle only by cancelChannelSetup or disconnect.
C14_StatusStateMachine ==
  [][node'.channelStatus # node.channelStatus =>
       /\ node'.channelStatus = "idle" => (CancelChannelSetup \/ Disconnect)
       /\ ~Command =>
            /\ node.channelStatus = "checking" =>
                 node'.channelStatus \in {"ready", "no_route", "error"}
            /\ node'.channelStatus = "waiting_confirmation" =>
                 (node.channelStatus = "opening_channel" /\ OpenSucceeded)
            /\ node'.channelStatus = "ready" =>
                 node.channelStatus \in {"checking", "waiting_confirmation"}
            /\ node'.channelStatus = "error" =>
                 node.channelStatus \in {"checking", "opening_channel", "waiting_confirmation"}
            /\ node'.channelStatus = "no_route" => node.channelStatus = "checking"
            /\ node'.channelStatus \notin {"checking", "opening_channel"}
    ]_vars

\* C15: a poll of a setup call turns the status to ready only when a
\* channel to the peer that the node began to open for the call, or later,
\* is listed ready: a channel that was there before the open request does
\* not make the call report ready.
C15_ReadyOnlyFromNewChannel ==
  [][\A a \in SetupIds :
       PollReportsReady(a) =>
         /\ setups[a].opened # 0
         /\ \E i \in PeerChannelIds :
              i >= setups[a].opened /\ gwChannels[i].state = "ready"
    ]_vars

\* The poll requests call a has sent: attempts counts them in the
\* peer-keyed revision; in the recipient-keyed one attempts is the loop
\* index, and the request of that iteration is out once the loop polls.
PollRequests(a) ==
  IF revision = "peer" THEN setups[a].attempts
  ELSE IF setups[a].pc = "polling" THEN setups[a].attempts + 1
  ELSE setups[a].attempts

\* The last poll the bound allows comes back for call a, with no channel to
\* the peer listed ready or closed, and no cancel or disconnect before it.
LastPollInVain(a) ==
  /\ RecipientPollResolved(a, "ok") \/ PeerPollResolved(a, "ok")
  /\ PollRequests(a) >= maxAttempts
  /\ \A i \in PeerChannelIds : gwChannels[i].state = "transitioning"
  /\ ~node.cancelledRef
  /\ node.clientRef

\* C16: a setup call sends at most maxAttempts poll requests; and when the
\* last of them comes back without the channel ready or closed, the status
\* becomes error with the timed-out message, the call's promise resolves to
\* false, and the call's polling stops: its timers are cleared.
C16_PollingBounded ==
  [][\A a \in SetupIds :
       /\ PollRequests(a)' <= maxAttempts
       /\ LastPollInVain(a) =>
            /\ node'.channelStatus = "error"
            /\ node'.channelError \in {MsgTimeoutPeer, GenericError(MsgTimeoutRecipient)}
            /\ setups'[a].result = "false"
            /\ Handle("poll", a) \notin node'.armed
            /\ Handle("elapsed", a) \notin node'.armed
    ]_vars

\* C17: once a setup call has ended, by its promise being resolved or by a
\* cancel that found it under way, neither its poll timer nor its elapsed
\* ticker is armed.
C17_NoDanglingTimers ==
  \A a \in SetupIds :
    (setups[a].result # "pending" \/ setups[a].cancelSeen # "none") =>
      /\ Handle("poll", a) \notin node.armed
      /\ Handle("elapsed", a) \notin node.armed

(***************************************************************************)
(* Claims about the page (specification SpecPage)                          *)
(***************************************************************************)

\* C18: the billing engine is started, and its timer armed, only in a step
\* that begins with the channel status ready and the node connected; a
\* press of play in any other situation leaves the billing engine as it is.
C18_StartOnlyWhenReady ==
  [][/\ (timers' \ timers # {} \/ (~isStreaming /\ isStreaming')) =>
          (node.channelStatus = "ready" /\ node.isConnected)
     /\ (HandlePlayPause /\ ~isPlaying
           /\ ~(node.channelStatus = "ready" /\ node.isConnected)) =>
          UNCHANGED billingVars
    ]_vars

\* C18 witness: play was pressed with a ready route and the billing timer
\* is armed.
C18_Witness ==
  /\ isStreaming
  /\ intervalId # NoTimer
  /\ timers # {}
  /\ lastOp = "start"

(***************************************************************************)
(* Claims about the order of the ticks (specification Spec)                *)
(***************************************************************************)

\* C19: the ticks handed to the subscribers are in non-decreasing timestamp
\* order.
C19_TicksInTimestampOrder ==
  \A i \in 1..(Len(ticks) - 1) : ticks[i].timestamp <= ticks[i + 1].timestamp

\* C20: a success tick carries a running total at least as large as that of
\* every tick handed to the subscribers before it.
C20_SuccessTotalDominates ==
  \A j \in 1..Len(ticks) :
    ticks[j].status = "success" =>
      \A i \in 1..(j - 1) : ticks[i].totalPaidShannon <= ticks[j].totalPaidShannon

(***************************************************************************)
(* Further claims about the billing engine (specification Spec)            *)
(***************************************************************************)

\* The tick t as delivered when its send settles with this status.
DeliveredAs(t, d) ==
  /\ d.id = t.id
  /\ d.timestamp = t.timestamp
  /\ d.amountShannon = t.amountShannon
  /\ d.status \in {"success", "failed"}

\* C21: an in-flight payment send is never cancelled.  stopStreaming removes
\* no send from those in flight; a send leaves them only by settling, in a
\* step that delivers its tick to notifyCallbacks, whether the engine is
\* streaming or stopped, and that adds the tick's amount to totalPaid when
\* the tick is a success.
C21_InflightNeverCancelled ==
  [][ /\ lastOp' = "stop" => inflight \subseteq inflight'
      /\ \A t \in inflight \ inflight' :
            /\ inflight \ inflight' = {t}
            /\ Len(ticks') = Len(ticks) + 1
            /\ DeliveredAs(t, ticks'[Len(ticks')])
            /\ ticks'[Len(ticks')].status = "success" =>
                  getTotalPaid' = getTotalPaid + t.amountShannon
    ]_vars

\* C21 witness: on a stopped engine, the last step delivered as a success
\* the tick of a timer-driven send, which was therefore in flight when
\* stopStreaming ran; the final tick of that stop is still in flight.
C21_Witness ==
  /\ ~isStreaming
  /\ lastOp = "settle"
  /\ Len(ticks) >= 1
  /\ ~LastTick.awaitedByStop
  /\ LastTick.status = "success"
  /\ getTotalPaid >= LastTick.amountShannon
  /\ \E t \in inflight : t.awaitedByStop

\* C22 (as claimed): a rate or a tick interval that is not positive is
\* rejected at construction, so no engine that streams has such a
\* configuration.
C22_InvalidConfigRejected ==
  isStreaming => (ratePerSecond > 0 /\ paymentIntervalMs > 0)

TimeoutErrors == {MsgTimeoutPeer, ClassifyRecipient(MsgTimeoutRecipient)}

\* C24 (as claimed): a transport error in one poll iteration is transient.
\* When the list request of a poll fails while the status is
\* waiting_confirmation, the status stays waiting_confirmation and the
\* attempt goes on, unless this poll was the last the attempt bound allows.
C24_PollErrorTransient ==
  [][ \A a \in DOMAIN setups : \A resp \in ListErrors :
        ( /\ node.channelStatus = "waiting_confirmation"
          /\ RecipientPollResolved(a, resp) \/ PeerPollResolved(a, resp) )
        => \/ /\ node'.channelStatus = "waiting_confirmation"
              /\ Live(setups'[a])
           \/ /\ node'.channelStatus = "error"
              /\ node'.channelError \in TimeoutErrors
    ]_vars

\* The failure texts of an open-channel request: those of open_channel, and
\* in the recipient-keyed revision those of openChannelByPubkey's peer lookup.
OpenFailures == OpenErrors \cup ListErrors \cup {MsgNotInPeerList}

\* The three guidance categories of the catch blocks: peer unreachable,
\* insufficient funds, generic (the failure text behind a fixed prefix).
GuidanceTexts ==
  {GuidancePeer, GuidanceFunds} \cup {GenericError(m) : m \in OpenFailures}

\* The open-channel request of call a fails in this step.
OpenRequestFails(a) ==
  \/ \E resp \in OpenErrors : PeerOpenResolved(a, resp)
  \/ \E resp \in OpenErrors : RecipientOpenResolved(a, resp)
  \/ /\ \E resp \in ListResponses : RecipientOpenFindPeerResolved(a, resp)
     /\ setups'[a].pc = "done"

\* C25: when the open-channel request itself fails, the status becomes
\* error; the call has not entered waiting_confirmation (the status has not
\* been waiting_confirmation when it is the only call made), it is over with
\* no channel begun, neither its poll timer nor its elapsed ticker is armed,
\* and the error text is one of the three guidance categories.
C25_OpenFailureEndsInError ==
  [][ \A a \in DOMAIN setups :
        OpenRequestFails(a) =>
          /\ setups[a].opened = 0
          /\ (\A b \in DOMAIN setups \ {a} : setups[b].pc = "unused") =>
                node.channelStatus # "waiting_confirmation"
          /\ node'.channelStatus = "error"
          /\ node'.channelError \in GuidanceTexts
          /\ setups'[a].pc = "done"
          /\ setups'[a].result = "false"
          /\ node'.armed \cap {Handle("poll", a), Handle("elapsed", a)} = {}
          /\ gwChannels' = gwChannels
    ]_vars

\* C25 witness: the open-channel request failed for lack of funds; the call
\* is over, nothing was opened, no timer is armed.
C25_Witness ==
  /\ node.channelStatus = "error"
  /\ node.channelError = GuidanceFunds
  /\ node.armed = {}
  /\ \E a \in DOMAIN setups :
        setups[a].pc = "done" /\ setups[a].result = "false" /\ setups[a].opened = 0

\* The error strings of the transport and of the node, as thrown.
RawErrors == OpenErrors \cup ListErrors

\* C26 (as claimed): in every state with channel status error the error text
\* is set and is a guidance message, never the raw error string of a failed
\* request, whether checkPaymentRoute or setupChannel raised the error.
C26_ErrorTextCategorized ==
  node.channelStatus = "error" =>
    (node.channelError # "none" /\ node.channelError \notin RawErrors)

(***************************************************************************)
(* Claims about one tick of the billing engine                             *)
(***************************************************************************)

\* processPaymentTick runs in this step: the interval callback, or the final
\* tick of a stopStreaming that found the engine streaming.
TickRuns == lastOp' = "timer" \/ (lastOp' = "stop" /\ isStreaming)

\* The whole seconds the tick of this step finds accumulated.
WholeSecondsFound == (accumulatedSeconds + (now - lastPaymentTime)) \div MsPerSecond

\* C27: a tick that finds k >= 1 whole accumulated seconds makes exactly one
\* send attempt, of rate * k in shannon, and that send is delivered as
\* exactly one PaymentTick of the same amount; at 0.0001 CKB per second
\* (10000 shannon) and k = 3 the amount is 30000, and the tick delivered
\* for it when the gateway accepts has status success and amount 30000.
C27_OneSendPerBillableTick ==
  /\ [][ (TickRuns /\ WholeSecondsFound >= 1) =>
            /\ ticks' = ticks
            /\ \E t \in inflight' \ inflight :
                 /\ inflight' = inflight \cup {t}
                 /\ t.secondsToPay = WholeSecondsFound
                 /\ SubShannon * t.amountShannon <= ratePerSecond * WholeSecondsFound
                 /\ SubShannon * (t.amountShannon + 1) > ratePerSecond * WholeSecondsFound
                 /\ (ratePerSecond = DemoRateShannon * SubShannon /\ WholeSecondsFound = 3)
                      => t.amountShannon = 30000
        ]_vars
  /\ [][ \A t \in inflight : \A outcome \in SendOutcomes :
            KeysendSettled(t, outcome) =>
              /\ Len(ticks') = Len(ticks) + 1
              /\ inflight' = inflight \ {t}
              /\ DeliveredAs(t, ticks'[Len(ticks')])
              /\ outcome = "Success" => ticks'[Len(ticks')].status = "success"
        ]_vars
  /\ [](\A i, j \in 1..Len(ticks) : ticks[i].id = ticks[j].id => i = j)
  /\ [](\A t \in inflight : \A i \in 1..Len(ticks) : ticks[i].id # t.id)

\* C27 witness: the scenario of the specification.  At 0.0001 CKB per second
\* one tick found three whole seconds; its send was accepted and it is the
\* only tick delivered, with amount 30000 and status success.
C27_Witness ==
  /\ ratePerSecond = DemoRateShannon * SubShannon
  /\ Len(ticks) = 1
  /\ inflight = {}
  /\ ticks[1].secondsToPay = 3
  /\ ticks[1].amountShannon = 30000
  /\ ticks[1].status = "success"
  /\ ticks[1].totalPaidShannon = 30000

\* C28: a tick that finds less than one whole accumulated second makes no
\* payment attempt, delivers no PaymentTick and leaves totalPaid unchanged.
\* The timer-driven tick changes nothing but the last-tick time, which becomes
\* now, and accumulatedSeconds, which grows by the elapsed time; after the
\* final tick of stopStreaming, stopStreaming itself disarms the timer and sets
\* accumulatedSeconds to 0.
C28_NoSendBelowOneSecond ==
  [][ (TickRuns /\ WholeSecondsFound < 1) =>
        /\ inflight' = inflight
        /\ ticks' = ticks
        /\ getTotalPaid' = getTotalPaid
        /\ lastPaymentTime' = now
        /\ UNCHANGED <<ratePerSecond, paymentIntervalMs, now, routeAvailable>>
        /\ lastOp' = "timer" =>
             /\ accumulatedSeconds' = accumulatedSeconds + (now - lastPaymentTime)
             /\ UNCHANGED <<isStreaming, intervalId, timers>>
        /\ lastOp' = "stop" =>
             /\ accumulatedSeconds' = 0
             /\ ~isStreaming' /\ timers' = {} /\ intervalId' = NoTimer
    ]_vars

\* C28 witness: after one tick was paid, the timer has just run a tick that
\* found half a second: nothing is in flight, nothing more was delivered, and
\* the fraction is kept.
C28_Witness ==
  /\ lastOp = "timer"
  /\ isStreaming
  /\ lastPaymentTime = now
  /\ accumulatedSeconds > 0
  /\ accumulatedSeconds < MsPerSecond
  /\ inflight = {}
  /\ Len(ticks) = 1
  /\ ticks[1].status = "success"
  /\ getTotalPaid = ticks[1].amountShannon

\* The seconds billed by the send this step adds (0: the step adds none).
SecondsBilled ==
  IF inflight' \ inflight = {} THEN 0
  ELSE (CHOOSE t \in inflight' \ inflight : TRUE).secondsToPay

\* C29: accumulatedSeconds is always at least 0 and less than one second;
\* the timer-driven tick takes from the accumulated time exactly the whole
\* seconds it bills and keeps the remainder, and what the final tick of
\* stopStreaming leaves beside the seconds it bills is less than a second.
C29_FractionBelowOneSecond ==
  /\ [](accumulatedSeconds >= 0 /\ accumulatedSeconds < MsPerSecond)
  /\ [][ TickRuns =>
           LET found == accumulatedSeconds + (now - lastPaymentTime)
           IN /\ found - SecondsBilled * MsPerSecond >= 0
              /\ found - SecondsBilled * MsPerSecond < MsPerSecond
              /\ lastOp' = "timer" =>
                   accumulatedSeconds' = found - SecondsBilled * MsPerSecond
        ]_vars

\* C29 witness: the timer has just run a tick a second and a half after the
\* last one; it bills one second and half a second is kept.
C29_Witness ==
  /\ lastOp = "timer"
  /\ accumulatedSeconds = StepMs
  /\ \E t \in inflight :
        t.timestamp = now /\ t.secondsToPay = 1 /\ ~t.awaitedByStop

\* The final tick of a stopStreaming has a send that has not settled yet.
FinalFlushInFlight == \E t \in inflight : t.awaitedByStop

\* C30 (as claimed): stopStreaming marks the engine inactive only after its
\* final tick has completed.  While the send of that final tick is in flight
\* isActive still reports true, and a startStreaming made then is a call on a
\* streaming engine: it arms no timer and resets nothing.
C30_InactiveOnlyAfterFlush ==
  /\ [](FinalFlushInFlight => isActive)
  /\ [][ (lastOp' = "start" /\ FinalFlushInFlight) =>
            UNCHANGED <<isStreaming, intervalId, timers, dueAt,
                        accumulatedSeconds, lastPaymentTime>>
        ]_vars

(***************************************************************************)
(* Claims about concurrent setup attempts and the page                     *)
(***************************************************************************)

\* C31 (as claimed): the tie-break of a poll.  When the poll of a call lists
\* several channels to the peer that were not in its snapshot, one of them
\* ready and another still transitioning, the transitioning one is preferred:
\* the poll does not report ready for the other.
C31_TieBreakPrefersTransitioning ==
  [][ \A a \in DOMAIN setups :
        ( /\ RecipientPollResolved(a, "ok")
          /\ NewInState(setups[a], "transitioning") # {}
          /\ NewInState(setups[a], "ready") # {} )
        => /\ setups'[a].pc # "refreshing"
           /\ node.channelStatus # "ready" => node'.channelStatus # "ready"
    ]_vars

\* C32 (as claimed): the payment history kept for the page is capped and in
\* insertion order: it holds at most the 50 most recent ticks, in the order
\* they were emitted.
C32_HistoryCapped ==
  /\ Len(paymentHistory) <= 50
  /\ \A i \in 1..Len(paymentHistory) :
        paymentHistory[i] = lastPayment.number - Len(paymentHistory) + i

\* C33 (as claimed): the cancel flag is set once and never cleared for the
\* attempt it cancelled.  As long as a call that cancelChannelSetup found
\* under way is not over, the flag its poll loop tests is set, whatever
\* setupChannel or disconnect calls came later.
C33_CancelFlagSticky ==
  \A a \in DOMAIN setups :
     (Live(setups[a]) /\ setups[a].cancelSeen # "none") => node.cancelledRef

\* C34 (as claimed): every setupChannel call completes with a boolean.  A
\* call of which nothing is left to run (no request in flight, no timer
\* armed that would run its code) has resolved its promise with true or
\* false; in particular a call cancelled between two polls has returned false.
C34_SetupCompletes ==
  \A a \in DOMAIN setups :
     setups[a].pc = "done" => setups[a].result \in {"true", "false"}

\* The call a sends a gateway request in this step.
SendsRequest(a) ==
  \/ setups'[a].polls > setups[a].polls
  \/ setups'[a].refreshes > setups[a].refreshes
  \/ /\ setups'[a].pc # setups[a].pc
     /\ setups'[a].pc \in {"listBefore", "openFindPeer", "opening", "findPeer",
                           "polling", "refreshing"}

\* C35 (as claimed): disconnect leaves the status idle, and from then until
\* the next connect, checkPaymentRoute or setupChannel command nothing that
\* an earlier setup call still runs changes the status or sends a gateway
\* request: its poll loop neither polls again nor reports ready or error.
C35_DisconnectEndsAttempts ==
  [][ /\ Disconnect => node'.channelStatus = "idle"
      /\ (~node.clientRef /\ ~node'.clientRef /\ ~Command) =>
            /\ node.channelStatus = "idle" => node'.channelStatus = "idle"
            /\ \A a \in DOMAIN setups : ~SendsRequest(a)
    ]_vars

\* C36 (as claimed): a setup call writes one terminal outcome.  With a
\* single call made, once the status is ready or error (which only that
\* call can have written), nothing but a command changes the status, the
\* error text or the remote state name: no later or in-flight poll of the
\* call writes them again.
C36_OneTerminalOutcome ==
  [][ ( /\ node.channelStatus \in {"ready", "error"}
        /\ \E a \in DOMAIN setups : setups[a].pc # "unused"
        /\ \A a \in DOMAIN setups : setups[a].pc = "unused" \/ a = 1
        /\ ~Command )
      => /\ node'.channelStatus = node.channelStatus
         /\ node'.channelError = node.channelError
         /\ node'.channelStateName = node.channelStateName
    ]_vars

\* C37 (as claimed): a session started while the previous stopStreaming still
\* awaits its final tick is not disturbed when that stop completes: the step
\* that settles the final tick's send leaves the new session's
\* accumulatedSeconds, its last-tick time and its timer as they are.
C37_RestartUndisturbed ==
  [][ \A t \in inflight : \A outcome \in SendOutcomes :
        (KeysendSettled(t, outcome) /\ t.awaitedByStop /\ isStreaming) =>
          UNCHANGED <<accumulatedSeconds, lastPaymentTime, isStreaming,
                      intervalId, timers, dueAt>>
    ]_vars

\* C38 (as claimed): billing runs only alongside playback.  A press of play
\* (handlePlayPause while the audio is not playing) never ends with the
\* billing engine streaming and the audio not started.
C38_BillingOnlyWithPlayback ==
  [][ (HandlePlayPause /\ ~isPlaying) => (isStreaming' => isPlaying') ]_vars

\* The amounts of a sequence of ticks, in the order of delivery.
TickAmounts(seq) == [i \in 1..Len(seq) |-> seq[i].amountShannon]

\* C39: driven by the same starts, timer callbacks, clock and stops, and with
\* every payment accepted, the payment service and the demo service have, once
\* no payment is in flight, delivered the same sequence of tick amounts and
\* hold the same total paid.
C39_MockMatchesService ==
  inflight = {} =>
    /\ TickAmounts(ticks) = TickAmounts(mockTicks)
    /\ totalPaid = mockTotalPaid

====
